---- MODULE Spec2Model ----
(***************************************************************************)
(* Prototype-chain object model exercised by the teaching snippets:        *)
(* objects ("Nodes") with ordered own properties ("slots"), a [[Prototype]]*)
(* link ("delegate"), and the operations the snippets call on them:        *)
(* Object.create, Object.setPrototypeOf, plain assignment,                 *)
(* Object.defineProperty / Object.create's descriptor map, property reads, *)
(* for-in and isPrototypeOf.  The snippets are plain scripts (no           *)
(* "use strict", no import/export), so assignment is non-strict.           *)
(* Object.prototype is taken as the end of every chain: none of the keys   *)
(* modelled here is one of its properties.                                 *)
(***************************************************************************)
EXTENDS Integers, Sequences, FiniteSets, TLC

\* ---- bounds ----
NumNodes == 3          \* objects created in SpecLink / SpecChain runs
NumObjs == 2           \* objects created in Spec / SpecEnum runs
NumOwn == 1            \* objects created in SpecOwn runs
OwnSlots == 1          \* own slots alive in the heap at once (SpecOwn)
MaxSlots == 2          \* own slots alive in the heap at once (Spec, SpecChain)
EnumSlots == 3         \* own slots alive in the heap at once (SpecEnum)
MergeSlots == 3        \* own slots alive in the heap at once (SpecMerge)
NewSlots == 9          \* own slots alive in the heap at once (SpecNew)
NotesSlots == 4        \* own slots alive in the heap at once (SpecNotes)
FlySlots == 7          \* own slots in the flying runs (SpecFly)
CatSlots == 9          \* own slots in the Cat runs (SpecCat)
StoreLen == 2          \* largest length a store reaches (SpecStore)

Null == 0
Nodes == 1..NumNodes
Keys == {"a", "b"}
DescKeys == {"a"}      \* the key the descriptor runs (Spec) define and assign
Values == {1, 2}       \* two distinguishable property values
NoKey == "-"

VARIABLES alive, proto, slots, last, isFlying
vars == <<alive, proto, slots, last, isFlying>>

\* A property descriptor / an own slot's attributes.
Descriptors ==
  [value : Values, writable : BOOLEAN, enumerable : BOOLEAN, configurable : BOOLEAN]

\* Descriptors that differ from plain assignment only in hiding the slot
\* from enumeration (assignment itself creates the enumerable ones).
EnumDescriptors ==
  {d \in Descriptors : d.writable /\ d.configurable /\ ~d.enumerable}

MkSlot(k, d) ==
  [key |-> k, value |-> d.value, writable |-> d.writable,
   enumerable |-> d.enumerable, configurable |-> d.configurable]

\* obj.k = v on an object without k: all three attributes true.
AssignedSlot(k, v) ==
  [key |-> k, value |-> v, writable |-> TRUE, enumerable |-> TRUE, configurable |-> TRUE]

Range(f) == {f[i] : i \in DOMAIN f}

\* ---- own-property helpers ([[GetOwnProperty]], [[OwnPropertyKeys]]) ----
OwnIdx(s, n, k) == {i \in 1..Len(s[n]) : s[n][i].key = k}
HasOwn(s, n, k) == OwnIdx(s, n, k) # {}
OwnSlot(s, n, k) == s[n][CHOOSE i \in OwnIdx(s, n, k) : TRUE]

RECURSIVE SumLen(_, _)
SumLen(s, S) ==
  IF S = {} THEN 0
  ELSE LET n == CHOOSE x \in S : TRUE IN Len(s[n]) + SumLen(s, S \ {n})
TotalSlots(s) == SumLen(s, Nodes)

Replace(s, n, k, r) ==
  [s EXCEPT ![n] = [i \in 1..Len(s[n]) |-> IF s[n][i].key = k THEN r ELSE s[n][i]]]
Append1(s, n, r) == [s EXCEPT ![n] = Append(s[n], r)]

\* ---- property read: O.[[Get]](P) ----
NotFound == [found |-> FALSE, value |-> 0, owner |-> Null]
Found(v, o) == [found |-> TRUE, value |-> v, owner |-> o]

\* Faulty reads: one that never leaves the object, one that lets the
\* farthest delegate win.
GetOwnOnly(p, s, n, k) ==
  IF HasOwn(s, n, k) THEN Found(OwnSlot(s, n, k).value, n) ELSE NotFound

RECURSIVE GetFarthest(_, _, _, _)
GetFarthest(p, s, n, k) ==
  LET up == IF p[n] = Null THEN NotFound ELSE GetFarthest(p, s, p[n], k) IN
  IF up.found THEN up
  ELSE IF HasOwn(s, n, k) THEN Found(OwnSlot(s, n, k).value, n)
  ELSE NotFound

RECURSIVE Get(_, _, _, _)
Get(p, s, n, k) ==
  IF HasOwn(s, n, k) THEN Found(OwnSlot(s, n, k).value, n)
  ELSE IF p[n] = Null THEN NotFound
  ELSE Get(p, s, p[n], k)

\* ---- Object.setPrototypeOf(O, V): the cycle walk of [[SetPrototypeOf]] ----
\* Faulty cycle walks: one that only refuses a self-link, one that also
\* refuses a delegate already reachable from the object.
WouldCycleSelfOnly(p, o, v) == v # Null /\ v = o

RECURSIVE Reaches(_, _, _)
Reaches(p, from, to) ==
  IF from = Null THEN FALSE
  ELSE IF from = to THEN TRUE
  ELSE Reaches(p, p[from], to)
WouldCycleEither(p, o, v) == Reaches(p, v, o) \/ (v # Null /\ Reaches(p, o, v))

\* Faulty cycle walk: looks one link past the new delegate only.
WouldCycleOneLink(p, o, v) == v # Null /\ (v = o \/ p[v] = o)

RECURSIVE WouldCycle(_, _, _)
WouldCycle(p, o, v) ==
  IF v = Null THEN FALSE
  ELSE IF v = o THEN TRUE
  ELSE WouldCycle(p, o, p[v])

\* Faulty link: no cycle check at all.
LinkOutcomeUnchecked(p, o, v) == "ok"

LinkOutcome(p, o, v) ==
  IF v = p[o] THEN "ok"
  ELSE IF WouldCycle(p, o, v) THEN "CycleError"
  ELSE "ok"

\* ---- V.isPrototypeOf(O) ----
\* Faulty isPrototypeOf: looks at the direct delegate only.
IsPrototypeOfDirect(p, cand, n) == p[n] # Null /\ p[n] = cand

RECURSIVE IsPrototypeOf(_, _, _)
IsPrototypeOf(p, cand, n) ==
  IF p[n] = Null THEN FALSE
  ELSE IF p[n] = cand THEN TRUE
  ELSE IsPrototypeOf(p, cand, p[n])

\* ---- obj.k = v (non-strict): O.[[Set]](P, V, Receiver) ----
\* Faulty assignment: writable is never consulted.
SetOutcomeForce(p, s, o, k, receiver) ==
  IF HasOwn(s, receiver, k) THEN "update" ELSE "create"

RECURSIVE SetOutcome(_, _, _, _, _)
SetOutcome(p, s, o, k, receiver) ==
  IF HasOwn(s, o, k) THEN
    IF ~OwnSlot(s, o, k).writable THEN "ignored"
    ELSE IF HasOwn(s, receiver, k)
         THEN (IF OwnSlot(s, receiver, k).writable THEN "update" ELSE "ignored")
         ELSE "create"
  ELSE IF p[o] # Null THEN SetOutcome(p, s, p[o], k, receiver)
  ELSE IF HasOwn(s, receiver, k)
       THEN (IF OwnSlot(s, receiver, k).writable THEN "update" ELSE "ignored")
       ELSE "create"

\* Faulty assignment: the value is written where the key was found.
SetApplyOnOwner(p, s, n, k, v) ==
  LET out == SetOutcome(p, s, n, k, n)
      at == Get(p, s, n, k)
  IN IF out = "ignored" THEN s
     ELSE IF at.found
          THEN Replace(s, at.owner, k, [OwnSlot(s, at.owner, k) EXCEPT !.value = v])
          ELSE Append1(s, n, AssignedSlot(k, v))

\* Faulty assignment: an existing own slot keeps the value it had.
SetApplyKeepValue(p, s, n, k, v) ==
  IF SetOutcome(p, s, n, k, n) = "create" THEN Append1(s, n, AssignedSlot(k, v))
  ELSE s

SetApply(p, s, n, k, v) ==
  LET out == SetOutcome(p, s, n, k, n) IN
  IF out = "update" THEN Replace(s, n, k, [OwnSlot(s, n, k) EXCEPT !.value = v])
  ELSE IF out = "create" THEN Append1(s, n, AssignedSlot(k, v))
  ELSE s

\* ---- Object.defineProperty(O, P, Desc): ValidateAndApplyPropertyDescriptor ----
\* Faulty validation: enumerable is not protected.
DefineRejectedNoEnum(cur, d) ==
  /\ ~cur.configurable
  /\ \/ d.configurable
     \/ /\ ~cur.writable
        /\ (d.writable \/ d.value # cur.value)

\* Faulty validation: nothing is protected.
DefineRejectedNever(cur, d) == FALSE

DefineRejected(cur, d) ==
  /\ ~cur.configurable
  /\ \/ d.configurable
     \/ d.enumerable # cur.enumerable
     \/ /\ ~cur.writable
        /\ (d.writable \/ d.value # cur.value)

DefineOutcome(s, n, k, d) ==
  IF ~HasOwn(s, n, k) THEN "ok"
  ELSE IF MkSlot(k, d) = OwnSlot(s, n, k) THEN "ok"
  ELSE IF DefineRejected(OwnSlot(s, n, k), d) THEN "ConfigurationError"
  ELSE "ok"

\* Faulty redefinition: the descriptor is applied even when it is rejected.
DefineApplyAlways(s, n, k, d) ==
  IF HasOwn(s, n, k) THEN Replace(s, n, k, MkSlot(k, d))
  ELSE Append1(s, n, MkSlot(k, d))

DefineApply(s, n, k, d) ==
  IF DefineOutcome(s, n, k, d) # "ok" THEN s
  ELSE IF HasOwn(s, n, k) THEN Replace(s, n, k, MkSlot(k, d))
  ELSE Append1(s, n, MkSlot(k, d))

\* ---- descriptors that leave flags out: ToPropertyDescriptor ----
FlagNames == {"writable", "enumerable", "configurable"}

\* A descriptor literal: the flags named in omits are not written in it (its
\* record fields for them are unused and kept FALSE).
PartialDescriptors ==
  {pd \in [value : Values, omits : SUBSET FlagNames, writable : BOOLEAN,
           enumerable : BOOLEAN, configurable : BOOLEAN] :
     \A f \in pd.omits : ~pd[f]}

\* Faulty completion: a flag left out counts as true.
CompleteDescriptorTrue(s, n, k, pd) ==
  [value |-> pd.value,
   writable |-> ("writable" \in pd.omits) \/ pd.writable,
   enumerable |-> ("enumerable" \in pd.omits) \/ pd.enumerable,
   configurable |-> ("configurable" \in pd.omits) \/ pd.configurable]

\* A flag left out is false when the property is created and stays what it
\* is when the property exists.
CompleteDescriptor(s, n, k, pd) ==
  LET flag(f) == IF f \notin pd.omits THEN pd[f]
                 ELSE IF HasOwn(s, n, k) THEN OwnSlot(s, n, k)[f]
                 ELSE FALSE
  IN [value |-> pd.value, writable |-> flag("writable"),
      enumerable |-> flag("enumerable"), configurable |-> flag("configurable")]

\* ---- for (key in obj): EnumerateObjectProperties ----
RECURSIVE FilterEnum(_, _)
FilterEnum(sq, visited) ==
  IF sq = <<>> THEN <<>>
  ELSE LET r == Head(sq) IN
       IF r.enumerable /\ r.key \notin visited
       THEN <<r.key>> \o FilterEnum(Tail(sq), visited)
       ELSE FilterEnum(Tail(sq), visited)

\* Faulty for-in: only the keys it yielded count as visited.
RECURSIVE ForInSeenEnumerable(_, _, _, _)
ForInSeenEnumerable(p, s, n, visited) ==
  LET own == FilterEnum(s[n], visited)
      seen == visited \cup Range(own)
  IN IF p[n] = Null THEN own ELSE own \o ForInSeenEnumerable(p, s, p[n], seen)

RECURSIVE ForIn(_, _, _, _)
ForIn(p, s, n, visited) ==
  LET own == FilterEnum(s[n], visited)
      seen == visited \cup {s[n][i].key : i \in 1..Len(s[n])}
  IN IF p[n] = Null THEN own ELSE own \o ForIn(p, s, p[n], seen)

enumerateOwnAndInherited(p, s, n) == ForIn(p, s, n, {})

\* ---- the walks, node by node ----
\* No chain of NumNodes objects has more links than this.
WalkFuel == NumNodes + 1

\* The objects a property read looks at, in order; done is FALSE when the
\* walk was still going after WalkFuel objects.
RECURSIVE GetWalk(_, _, _, _, _)
GetWalk(p, s, n, k, fuel) ==
  IF fuel = 0 THEN [nodes |-> <<>>, done |-> FALSE]
  ELSE IF HasOwn(s, n, k) \/ p[n] = Null THEN [nodes |-> <<n>>, done |-> TRUE]
  ELSE LET up == GetWalk(p, s, p[n], k, fuel - 1)
       IN [nodes |-> <<n>> \o up.nodes, done |-> up.done]

\* The objects cand.isPrototypeOf(n) compares cand with.
RECURSIVE IsPrototypeOfWalk(_, _, _, _)
IsPrototypeOfWalk(p, cand, n, fuel) ==
  IF fuel = 0 THEN [nodes |-> <<>>, done |-> FALSE]
  ELSE IF p[n] = Null THEN [nodes |-> <<>>, done |-> TRUE]
  ELSE IF p[n] = cand THEN [nodes |-> <<p[n]>>, done |-> TRUE]
  ELSE LET up == IsPrototypeOfWalk(p, cand, p[n], fuel - 1)
       IN [nodes |-> <<p[n]>> \o up.nodes, done |-> up.done]

\* The objects for-in takes keys from.
RECURSIVE ForInWalk(_, _, _)
ForInWalk(p, n, fuel) ==
  IF fuel = 0 THEN [nodes |-> <<>>, done |-> FALSE]
  ELSE IF p[n] = Null THEN [nodes |-> <<n>>, done |-> TRUE]
  ELSE LET up == ForInWalk(p, p[n], fuel - 1)
       IN [nodes |-> <<n>> \o up.nodes, done |-> up.done]

\* ---- Object.assign(target, ...sources) ----
\* One key of one source: skipped unless it is an own enumerable property of
\* the source; otherwise its value is assigned to the target with a throwing
\* [[Set]], so an assignment that plain code would ignore is a TypeError.
\* Faulty copy: enumerable is not consulted.
MergeKeyAnyOwn(p, st, t, src, k) ==
  IF st.res # "ok" THEN st
  ELSE IF ~HasOwn(st.s, src, k) THEN st
  ELSE IF SetOutcome(p, st.s, t, k, t) = "ignored"
       THEN [s |-> st.s, res |-> "TypeError"]
       ELSE [s |-> SetApply(p, st.s, t, k, OwnSlot(st.s, src, k).value), res |-> "ok"]

\* Faulty copy: a new target slot takes the flags of the source slot.
MergeKeyCopyFlags(p, st, t, src, k) ==
  IF st.res # "ok" THEN st
  ELSE IF ~HasOwn(st.s, src, k) THEN st
  ELSE IF ~OwnSlot(st.s, src, k).enumerable THEN st
  ELSE IF SetOutcome(p, st.s, t, k, t) = "ignored"
       THEN [s |-> st.s, res |-> "TypeError"]
       ELSE IF SetOutcome(p, st.s, t, k, t) = "create"
            THEN [s |-> Append1(st.s, t, OwnSlot(st.s, src, k)), res |-> "ok"]
            ELSE [s |-> SetApply(p, st.s, t, k, OwnSlot(st.s, src, k).value),
                  res |-> "ok"]

MergeKey(p, st, t, src, k) ==
  IF st.res # "ok" THEN st
  ELSE IF ~HasOwn(st.s, src, k) THEN st
  ELSE IF ~OwnSlot(st.s, src, k).enumerable THEN st
  ELSE IF SetOutcome(p, st.s, t, k, t) = "ignored"
       THEN [s |-> st.s, res |-> "TypeError"]
       ELSE [s |-> SetApply(p, st.s, t, k, OwnSlot(st.s, src, k).value), res |-> "ok"]

\* The own keys of a source, in order, as they are when its turn starts.
OwnKeySeq(s, n) == [i \in 1..Len(s[n]) |-> s[n][i].key]

RECURSIVE MergeFrom(_, _, _, _, _)
MergeFrom(p, st, t, src, keys) ==
  IF keys = <<>> THEN st
  ELSE MergeFrom(p, MergeKey(p, st, t, src, Head(keys)), t, src, Tail(keys))

\* Faulty merge: the sources are taken right to left.
RECURSIVE MergeAllRightToLeft(_, _, _, _)
MergeAllRightToLeft(p, st, t, srcs) ==
  IF srcs = <<>> \/ st.res # "ok" THEN st
  ELSE LET src == srcs[Len(srcs)] IN
       MergeAllRightToLeft(p, MergeFrom(p, st, t, src, OwnKeySeq(st.s, src)), t,
                           SubSeq(srcs, 1, Len(srcs) - 1))

RECURSIVE MergeAll(_, _, _, _)
MergeAll(p, st, t, srcs) ==
  IF srcs = <<>> \/ st.res # "ok" THEN st
  ELSE MergeAll(p, MergeFrom(p, st, t, Head(srcs), OwnKeySeq(st.s, Head(srcs))),
                t, Tail(srcs))

mergeInto(p, s, t, srcs) == MergeAll(p, [s |-> s, res |-> "ok"], t, srcs)

\* Source lists of one call: one source, or two different ones.
SrcLists(S) ==
  {<<a>> : a \in S} \cup {q \in {<<a, b>> : a \in S, b \in S} : q[1] # q[2]}

\* ---- calculateHash ----
HashKeys == {"sender", "recipient"}

\* The strings the snippets store in sender / recipient, as UTF-16 code units:
\* value 1 is 'luis@tjoj.com', value 2 is 'luke@tjoj.com'.
StringOf(v) ==
  IF v = 1 THEN <<108, 117, 105, 115, 64, 116, 106, 111, 106, 46, 99, 111, 109>>
  ELSE IF v = 2 THEN <<108, 117, 107, 101, 64, 116, 106, 111, 106, 46, 99, 111, 109>>
  ELSE <<>>

\* One element of [..].join(''): undefined contributes the empty string.
JoinPart(r) == IF r.found THEN StringOf(r.value) ELSE <<>>

\* [this.sender, this.recipient].join('')
HashData(p, s, n) ==
  JoinPart(Get(p, s, n, "sender")) \o JoinPart(Get(p, s, n, "recipient"))

\* Signed 32-bit integers are kept as two's-complement 16-bit halves while
\* they are combined, so that no intermediate leaves the 32-bit range.
Half == 65536
HiHalf(h) == IF h >= 0 THEN h \div Half ELSE Half - 1 - ((-(h + 1)) \div Half)
LoHalf(h) == IF h >= 0 THEN h % Half ELSE Half - 1 - ((-(h + 1)) % Half)
FromHalves(hi, lo) ==
  IF hi >= Half \div 2 THEN (hi - Half) * Half + lo ELSE hi * Half + lo

\* h << 5 : ToInt32(h) shifted left, the bits above 31 dropped.
ShiftLeft5(h) ==
  LET lo == LoHalf(h) * 32
      hi == HiHalf(h) * 32 + (lo \div Half)
  IN FromHalves(hi % Half, lo % Half)

\* (a - h + c) << 0 : ToInt32 of the exact sum.
ToInt32Sum(a, h, c) ==
  LET lo == LoHalf(a) - LoHalf(h) + c + Half
      hi == HiHalf(a) - HiHalf(h) + (lo \div Half) - 1 + 2 * Half
  IN FromHalves(hi % Half, lo % Half)

HashStepNoSubtract(hash, c) == ToInt32Sum(ShiftLeft5(hash), 0, c)

\* hash = ((hash << 5) - hash + data.charCodeAt(i++)) << 0
HashStep(hash, c) == ToInt32Sum(ShiftLeft5(hash), hash, c)

\* while (i < data.length) { ... } : each iteration's accumulator is a value
\* before the next iteration starts.
RECURSIVE HashFold(_, _, _)
HashFold(data, i, hash) ==
  IF i > Len(data) THEN hash
  ELSE CHOOSE r \in {HashFold(data, i + 1, h) : h \in {HashStep(hash, data[i])}} : TRUE

\* Non-negative integers beyond 32 bits are sequences of five base-10^4
\* limbs, least significant first.
Base == 10000
LimbsOf(l5, l4, l3, l2, l1) == <<l1, l2, l3, l4, l5>>

\* |h| for a signed 32-bit h, as limbs.
Magnitude(h) ==
  LET m  == IF h >= 0 THEN h ELSE -(h + 1)
      lo == (m % Half) + (IF h >= 0 THEN 0 ELSE 1)
      hi == (m \div Half) + (lo \div Half)
      t0 == hi * 5536 + (lo % Half)
      t1 == hi * 6 + (t0 \div Base)
  IN <<t0 % Base, t1 % Base, t1 \div Base, 0, 0>>

\* The exact square of a three-limb number.
SquareLimbs(a) ==
  LET p1 == a[1] * a[1]
      p2 == 2 * a[1] * a[2] + (p1 \div Base)
      p3 == 2 * a[1] * a[3] + a[2] * a[2] + (p2 \div Base)
      p4 == 2 * a[2] * a[3] + (p3 \div Base)
      p5 == a[3] * a[3] + (p4 \div Base)
  IN <<p1 % Base, p2 % Base, p3 % Base, p4 % Base, p5>>

LimbGE(a, b) ==
  \/ a = b
  \/ \E i \in 1..5 : a[i] > b[i] /\ \A j \in (i + 1)..5 : a[j] = b[j]

RECURSIVE LimbMod(_, _, _, _)
LimbMod(a, m, i, r) ==
  IF i = 0 THEN r ELSE LimbMod(a, m, i - 1, (r * Base + a[i]) % m)

\* a + d for a small d of either sign.
RECURSIVE LimbAdd(_, _, _)
LimbAdd(a, d, i) ==
  IF i > 5 \/ d = 0 THEN a
  ELSE LET t == a[i] + d + Base
       IN LimbAdd([a EXCEPT ![i] = t % Base], (t \div Base) - 1, i + 1)

\* 2^53 .. 2^62
PowerOfTwo(j) ==
  CASE j = 53 -> LimbsOf(0, 9007, 1992, 5474, 992)
    [] j = 54 -> LimbsOf(1, 8014, 3985, 948, 1984)
    [] j = 55 -> LimbsOf(3, 6028, 7970, 1896, 3968)
    [] j = 56 -> LimbsOf(7, 2057, 5940, 3792, 7936)
    [] j = 57 -> LimbsOf(14, 4115, 1880, 7585, 5872)
    [] j = 58 -> LimbsOf(28, 8230, 3761, 5171, 1744)
    [] j = 59 -> LimbsOf(57, 6460, 7523, 342, 3488)
    [] j = 60 -> LimbsOf(115, 2921, 5046, 684, 6976)
    [] j = 61 -> LimbsOf(230, 5843, 92, 1369, 3952)
    [] j = 62 -> LimbsOf(461, 1686, 184, 2738, 7904)

\* The spacing of Number values around a: 2^(e-52) for 2^e <= a < 2^(e+1).
UlpOf(a) ==
  LET above == {j \in 53..62 : LimbGE(a, PowerOfTwo(j))}
  IN IF above = {} THEN 1
     ELSE 2 ^ ((CHOOSE j \in above : \A i \in above : i <= j) - 52)

\* The Number value for a: the nearest multiple of the spacing, ties to even.
ToNumber(a) ==
  LET u    == UlpOf(a)
      r    == LimbMod(a, u, 5, 0)
      down == LimbAdd(a, -r, 1)
      up   == LimbAdd(down, u, 1)
  IN IF r = 0 THEN a
     ELSE IF 2 * r < u THEN down
     ELSE IF 2 * r > u THEN up
     ELSE IF LimbMod(down, 2 * u, 5, 0) = 0 THEN down ELSE up

\* hash ** 2
Squared(h) == ToNumber(SquareLimbs(Magnitude(h)))

calculateHash(p, s, n) == Squared(HashFold(HashData(p, s, n), 1, 0))

\* ---- constructor functions ----
\* HashTransaction.prototype, the object every instance delegates to.
PrototypeNode == 1

\* Function objects: the constructor itself, the method added to the
\* prototype, and the function expression evaluated inside the call that
\* builds instance n (a new function object per evaluation).
ConstructorFn == 100
PrototypeMethodFn == 200
ClosureShared(n) == 101
ClosureOf(n) == 100 + n

\* Transaction.call(this, sender, recipient) and the assignment of
\* this.calculateHash: the part of the body that runs when new.target is set.
constructorBody(p, s, this, sender, recipient) ==
  LET s1 == SetApply(p, s, this, "sender", sender)
      s2 == SetApply(p, s1, this, "recipient", recipient)
  IN SetApply(p, s2, this, "calculateHash", ClosureOf(this))

\* Faulty constructor: no new.target test, the body runs on whatever this is
\* and a call without new returns undefined.
hashTransactionNoGuard(a, p, s, this, newTarget, sender, recipient) ==
  [alive |-> a, proto |-> p,
   slots |-> constructorBody(p, s, this, sender, recipient),
   ret |-> IF newTarget THEN this ELSE Null]

\* function HashTransaction(sender, recipient), called with this and
\* new.target as the call site gives them: without new.target it returns
\* new HashTransaction(sender, recipient) and never touches its this.
RECURSIVE hashTransaction(_, _, _, _, _, _, _)

\* new HashTransaction(sender, recipient): the object is created first,
\* linked to HashTransaction.prototype, and is the this of the call; the
\* function returns nothing, so the object is the result.
construct(a, p, s, sender, recipient) ==
  LET n == Cardinality(a) + 1
  IN hashTransaction(a \cup {n}, [p EXCEPT ![n] = PrototypeNode], s, n, TRUE,
                     sender, recipient)

hashTransaction(a, p, s, this, newTarget, sender, recipient) ==
  IF ~newTarget THEN construct(a, p, s, sender, recipient)
  ELSE [alive |-> a, proto |-> p,
        slots |-> constructorBody(p, s, this, sender, recipient), ret |-> this]

\* ---- MyStore: init and push ----
\* MyStore, Blockchain = Object.create(MyStore), chain = Object.create(Blockchain)
MyStoreNode == 1
BlockchainNode == 2
ChainNode == 3

\* The two methods of the MyStore literal, and the Number NaN.
InitFn == 301
PushFn == 302
NaNValue == -1

\* ToString of a length, as the property key this[this.length] uses.
Digits == <<"0", "1", "2", "3", "4", "5", "6", "7", "8", "9">>
LengthKey(r) ==
  IF ~r.found THEN "undefined"
  ELSE IF r.value = NaNValue THEN "NaN"
  ELSE Digits[r.value + 1]

\* ++x on what this.length read: undefined and NaN give NaN.
Increment(r) ==
  IF ~r.found \/ r.value = NaNValue THEN NaNValue ELSE r.value + 1

\* Faulty push: the element is stored one slot too far.
storePushAfter(p, s, r, b) ==
  LET new == Increment(Get(p, s, r, "length"))
      s1  == SetApply(p, s, r, "length", new)
      s2  == SetApply(p, s1, r, LengthKey(Get(p, s1, r, "length")), b)
  IN [s |-> s2, ret |-> new]

\* push(b) { this[this.length] = b; return ++this.length }
storePush(p, s, r, b) ==
  LET s1  == SetApply(p, s, r, LengthKey(Get(p, s, r, "length")), b)
      new == Increment(Get(p, s1, r, "length"))
      s2  == SetApply(p, s1, r, "length", new)
  IN [s |-> s2, ret |-> new]

\* init(element) { this.length = 0; this.push(element) }
storeInit(p, s, r, element) ==
  LET s1 == SetApply(p, s, r, "length", 0)
      m  == Get(p, s1, r, "push")
  IN IF m.found /\ m.value = PushFn
     THEN [s |-> storePush(p, s1, r, element).s, res |-> "ok"]
     ELSE [s |-> s1, res |-> "TypeError"]

\* ---- the flying mixin (Mixin-4.js) ----
\* Each call of flying(o) makes one environment holding the binding
\* isFlying; the environment is named by the object the call returns.  The
\* three functions the call creates close over that environment.
FlyFn(e) == 400 + e
IsFlyingFn(e) == 500 + e
LandFn(e) == 600 + e

\* The environment every closure would share if the binding were not per call.
EnvShared(fn) == 1

\* The environment a function value closes over.
EnvOf(fn) == fn % 100

\* land() { return this }: the binding is left alone.
landKeep(f, e, this) == [isFlying |-> f, ret |-> this]

\* fly() { isFlying = true; return this }
fly(f, e, this) == [isFlying |-> [f EXCEPT ![e] = TRUE], ret |-> this]

\* land() { isFlying = false; return this }
land(f, e, this) == [isFlying |-> [f EXCEPT ![e] = FALSE], ret |-> this]

\* isFlying: () => isFlying
isFlyingArrow(f, e) == f[e]

\* const flying = (o) => { let isFlying = false
\*   return Object.assign({}, o, {fly, isFlying, land}) }
\* n is the fresh {}; the method literal is copied last, key by key.
flying(p, s, f, n, o) ==
  LET s1 == mergeInto(p, s, n, <<o>>).s
      s2 == SetApply(p, s1, n, "fly", FlyFn(n))
      s3 == SetApply(p, s2, n, "isFlying", IsFlyingFn(n))
      s4 == SetApply(p, s3, n, "land", LandFn(n))
  IN [slots |-> s4, isFlying |-> [f EXCEPT ![n] = FALSE], ret |-> n]

\* What r[k]() would run: the function value k resolves to from r, or Null.
Method(p, s, r, k) ==
  LET m == Get(p, s, r, k) IN IF m.found THEN m.value ELSE Null

\* r.isFlying()
IsFlyingOf(p, s, f, r) ==
  isFlyingArrow(f, EnvOf(Method(p, s, r, "isFlying")))

\* ---- OLOO: Animal and Dog (reviewingPrototypalInheritance-1.js) ----
AnimalNode == 1
DogNode == 2
AnimalInitFn == 701
EatFn == 702
DogInitFn == 703
BarkFn == 704

\* Animal.init: init(name) { this.name = name; return this }
animalInit(p, s, this, name) ==
  [s |-> SetApply(p, s, this, "name", name), ret |-> this]

\* Dog.init with Animal.init(name) in place of Animal.init.call(this, name).
dogInitPlainCall(p, s, this, name, breed) ==
  LET a == animalInit(p, s, AnimalNode, name) IN
  [s |-> SetApply(p, a.s, this, "breed", breed), ret |-> this]

\* Dog.init = function (name, breed) {
\*   Animal.init.call(this, name); this.breed = breed; return this }
dogInit(p, s, this, name, breed) ==
  LET a == animalInit(p, s, this, name) IN
  [s |-> SetApply(p, a.s, this, "breed", breed), ret |-> this]

\* r.init(name, breed): whichever init r resolves runs with this = r.
callInit(p, s, r, name, breed) ==
  LET m == Method(p, s, r, "init") IN
  IF m = DogInitFn THEN dogInit(p, s, r, name, breed)
  ELSE animalInit(p, s, r, name)

\* `${this.name}`: the name r resolves, 0 standing for undefined.
NameOf(p, s, r) == Method(p, s, r, "name")

\* ---- Animal and Cat constructors (notes/prototype.js) ----
AnimalPrototypeNode == 1   \* Animal.prototype
CatPrototypeNode == 2      \* the object Cat.prototype = new Animal() makes
AnimalFn == 801
CatFn == 802
WalkFn == 803
MeowFn == 804
NickNameFn == 805
SpecieAnimal == 806        \* the string 'Animal'
CatLives == 9
SayNameFn(n) == 810 + n    \* the closure each call of Cat creates

\* function Animal() { this.specie = 'Animal' }
Animal(p, s, this) == SetApply(p, s, this, "specie", SpecieAnimal)

\* function Cat(name) { this.lives = 9; this.name = name; this.sayName = ... }
Cat(p, s, this, name) ==
  LET s1 == SetApply(p, s, this, "lives", CatLives)
      s2 == SetApply(p, s1, this, "name", name)
  IN SetApply(p, s2, this, "sayName", SayNameFn(this))

\* {enumerable: false, value: Cat, writable: true}: configurable is left out.
ConstructorDescriptor ==
  [value |-> CatFn, omits |-> {"configurable"}, writable |-> TRUE,
   enumerable |-> FALSE, configurable |-> FALSE]

\* ---- mixins: Object.assign(user, sayMixin) (Mixin-4.js) ----
\* Faulty mixin: the target is linked to the source instead of receiving
\* copies.
mixinLink(p, s, t, src) ==
  [proto |-> IF LinkOutcome(p, t, src) = "ok" THEN [p EXCEPT ![t] = src] ELSE p,
   s |-> s, res |-> "ok"]

\* Object.assign(t, src): the delegate links are not an output of the call.
mixin(p, s, t, src) ==
  LET r == mergeInto(p, s, t, <<src>>) IN [proto |-> p, s |-> r.s, res |-> r.res]

\* ---- state machine ----
Init ==
  /\ alive = {}
  /\ proto = [n \in Nodes |-> Null]
  /\ slots = [n \in Nodes |-> <<>>]
  /\ last = [op |-> "init", node |-> Null, target |-> Null, was |-> Null,
             key |-> NoKey, val |-> 0, res |-> "ok"]
  /\ isFlying = [n \in Nodes |-> FALSE]

\* Object.create(proto) / an object literal: a fresh object linked to d.
CreateNode(d, cap) ==
  /\ Cardinality(alive) < cap
  /\ LET n == Cardinality(alive) + 1 IN
     /\ alive' = alive \cup {n}
     /\ proto' = [proto EXCEPT ![n] = d]
     /\ last' = [op |-> "create", node |-> n, target |-> d, was |-> Null,
                 key |-> NoKey, val |-> 0, res |-> "ok"]
  /\ UNCHANGED <<slots, isFlying>>

\* Object.setPrototypeOf(n, d); TypeError "Cyclic __proto__ value" is CycleError.
LinkDelegate(n, d) ==
  /\ LET out == LinkOutcome(proto, n, d) IN
     /\ proto' = IF out = "ok" THEN [proto EXCEPT ![n] = d] ELSE proto
     /\ last' = [op |-> "link", node |-> n, target |-> d, was |-> proto[n],
                 key |-> NoKey, val |-> 0, res |-> out]
  /\ UNCHANGED <<alive, slots, isFlying>>

\* n.k = v
Set(n, k, v, cap) ==
  /\ LET out == SetOutcome(proto, slots, n, k, n) IN
     /\ out = "create" => TotalSlots(slots) < cap
     /\ slots' = SetApply(proto, slots, n, k, v)
     /\ last' = [op |-> "set", node |-> n, target |-> Null, was |-> Null,
                 key |-> k, val |-> v,
                 res |-> IF out = "ignored" THEN "ignored" ELSE "ok"]
  /\ UNCHANGED <<alive, proto, isFlying>>

\* Object.defineProperty(n, k, d); its TypeError is ConfigurationError.
DefineOwn(n, k, d, cap) ==
  /\ ~HasOwn(slots, n, k) => TotalSlots(slots) < cap
  /\ slots' = DefineApply(slots, n, k, d)
  /\ last' = [op |-> "define", node |-> n, target |-> Null, was |-> Null,
              key |-> k, val |-> d.value, res |-> DefineOutcome(slots, n, k, d)]
  /\ UNCHANGED <<alive, proto, isFlying>>

\* Object.assign(t, ...srcs); a TypeError leaves what was copied before it.
MergeInto(t, srcs, cap) ==
  /\ LET r == mergeInto(proto, slots, t, srcs) IN
     /\ TotalSlots(r.s) <= cap
     /\ slots' = r.s
     /\ last' = [op |-> "merge", node |-> t, target |-> Null, was |-> Null,
                 key |-> NoKey, val |-> 0, res |-> r.res]
  /\ UNCHANGED <<alive, proto, isFlying>>

\* n.calculateHash()
CalculateHash(n) ==
  /\ last' = [op |-> "hash", node |-> n, target |-> Null, was |-> Null,
              key |-> NoKey, val |-> HashFold(HashData(proto, slots, n), 1, 0),
              res |-> "ok", ret |-> calculateHash(proto, slots, n)]
  /\ UNCHANGED <<alive, proto, slots, isFlying>>

\* new HashTransaction(sender, recipient), or HashTransaction(sender,
\* recipient) called without new on whatever this the call site supplies.
New(sender, recipient, viaNew, cap) ==
  /\ Cardinality(alive) < NumNodes
  /\ \E this \in alive :
       LET out == IF viaNew THEN construct(alive, proto, slots, sender, recipient)
                  ELSE hashTransaction(alive, proto, slots, this, FALSE,
                                       sender, recipient)
       IN /\ TotalSlots(out.slots) <= cap
          /\ alive' = out.alive
          /\ proto' = out.proto
          /\ slots' = out.slots
          /\ last' = [op |-> "new", node |-> out.ret, target |-> PrototypeNode,
                      was |-> Null, key |-> NoKey,
                      val |-> IF viaNew THEN 1 ELSE 0, res |-> "ok"]
          /\ UNCHANGED isFlying

\* HashTransaction.prototype.calculateHash2 = function calculateHash() {...}
AddPrototypeMethod(cap) ==
  Set(PrototypeNode, "calculateHash2", PrototypeMethodFn, cap)

\* r.init(element); r.init must resolve to MyStore's init.
StoreInit(r, element) ==
  /\ Get(proto, slots, r, "init") = Found(InitFn, MyStoreNode)
  /\ LET out == storeInit(proto, slots, r, element) IN
     /\ slots' = out.s
     /\ last' = [op |-> "init", node |-> r, target |-> Null, was |-> Null,
                 key |-> NoKey, val |-> element, res |-> out.res]
  /\ UNCHANGED <<alive, proto, isFlying>>

\* r.push(b); r.push must resolve to MyStore's push.  val is what it returned.
StorePush(r, b, cap) ==
  /\ Get(proto, slots, r, "push") = Found(PushFn, MyStoreNode)
  /\ LET out == storePush(proto, slots, r, b) IN
     /\ out.ret <= cap
     /\ Len(out.s[r]) <= cap + 1
     /\ slots' = out.s
     /\ last' = [op |-> "push", node |-> r, target |-> Null, was |-> Null,
                 key |-> NoKey, val |-> out.ret, res |-> "ok"]
  /\ UNCHANGED <<alive, proto, isFlying>>

\* const n = flying(o)
Flying(o, cap) ==
  /\ Cardinality(alive) < NumNodes
  /\ LET n == Cardinality(alive) + 1
         out == flying(proto, slots, isFlying, n, o) IN
     /\ TotalSlots(out.slots) <= cap
     /\ alive' = alive \cup {n}
     /\ proto' = [proto EXCEPT ![n] = Null]
     /\ slots' = out.slots
     /\ isFlying' = out.isFlying
     /\ last' = [op |-> "flying", node |-> out.ret, target |-> o, was |-> Null,
                 key |-> NoKey, val |-> 0, res |-> "ok"]

\* r.fly(); target is what the call returned, was the binding before it.
Fly(r) ==
  /\ \E e \in alive : Method(proto, slots, r, "fly") = FlyFn(e)
  /\ LET e == EnvOf(Method(proto, slots, r, "fly"))
         out == fly(isFlying, e, r) IN
     /\ isFlying' = out.isFlying
     /\ last' = [op |-> "fly", node |-> r, target |-> out.ret,
                 was |-> IF isFlying[e] THEN 1 ELSE 0,
                 key |-> NoKey, val |-> 0, res |-> "ok"]
  /\ UNCHANGED <<alive, proto, slots>>

\* r.land()
Land(r) ==
  /\ \E e \in alive : Method(proto, slots, r, "land") = LandFn(e)
  /\ LET e == EnvOf(Method(proto, slots, r, "land"))
         out == land(isFlying, e, r) IN
     /\ isFlying' = out.isFlying
     /\ last' = [op |-> "land", node |-> r, target |-> out.ret,
                 was |-> IF isFlying[e] THEN 1 ELSE 0,
                 key |-> NoKey, val |-> 0, res |-> "ok"]
  /\ UNCHANGED <<alive, proto, slots>>

\* console.log(r.isFlying()); val is the answer.
IsFlyingCall(r) ==
  /\ \E e \in alive : Method(proto, slots, r, "isFlying") = IsFlyingFn(e)
  /\ last' = [op |-> "isFlying", node |-> r, target |-> Null, was |-> Null,
              key |-> NoKey,
              val |-> IF IsFlyingOf(proto, slots, isFlying, r) THEN 1 ELSE 0,
              res |-> "ok"]
  /\ UNCHANGED <<alive, proto, slots, isFlying>>

\* Object.create(d).init(name, breed); ret is what the expression evaluates to.
CreateInit(d, name, breed) ==
  /\ Cardinality(alive) < NumNodes
  /\ LET n == Cardinality(alive) + 1
         p1 == [proto EXCEPT ![n] = d]
         out == callInit(p1, slots, n, name, breed) IN
     /\ alive' = alive \cup {n}
     /\ proto' = p1
     /\ slots' = out.s
     /\ last' = [op |-> "createInit", node |-> n, target |-> d, was |-> Null,
                 key |-> NoKey, val |-> 0, res |-> "ok", ret |-> out.ret,
                 name |-> name, breed |-> breed]
  /\ UNCHANGED isFlying

\* r.init(name, breed) on an object that already exists.
CallInit(r, name, breed) ==
  /\ LET out == callInit(proto, slots, r, name, breed) IN
     /\ slots' = out.s
     /\ last' = [op |-> "callInit", node |-> r, target |-> Null, was |-> Null,
                 key |-> NoKey, val |-> 0, res |-> "ok", ret |-> out.ret,
                 name |-> name, breed |-> breed]
  /\ UNCHANGED <<alive, proto, isFlying>>

\* console.log(r.eat()) / console.log(r.bark()); val is the name printed.
Speak(r, k) ==
  /\ Method(proto, slots, r, k) \in {EatFn, BarkFn}
  /\ last' = [op |-> k, node |-> r, target |-> Null, was |-> Null,
              key |-> NoKey, val |-> NameOf(proto, slots, r), res |-> "ok"]
  /\ UNCHANGED <<alive, proto, slots, isFlying>>

\* Object.defineProperty(n, k, pd) with a descriptor literal.
DefineOmitting(n, k, pd, cap) ==
  DefineOwn(n, k, CompleteDescriptor(slots, n, k, pd), cap)

\* Cat.prototype = new Animal()
NewAnimal(cap) ==
  /\ alive = {AnimalPrototypeNode}
  /\ LET n == CatPrototypeNode
         p1 == [proto EXCEPT ![n] = AnimalPrototypeNode]
         s1 == Animal(p1, slots, n) IN
     /\ TotalSlots(s1) <= cap
     /\ alive' = alive \cup {n}
     /\ proto' = p1
     /\ slots' = s1
     /\ last' = [op |-> "newAnimal", node |-> n, target |-> AnimalPrototypeNode,
                 was |-> Null, key |-> NoKey, val |-> 0, res |-> "ok"]
  /\ UNCHANGED isFlying

\* new Cat(name), once Cat.prototype is the object made by new Animal().
NewCat(name, cap) ==
  /\ CatPrototypeNode \in alive
  /\ Cardinality(alive) < NumNodes
  /\ LET n == Cardinality(alive) + 1
         p1 == [proto EXCEPT ![n] = CatPrototypeNode]
         s1 == Cat(p1, slots, n, name) IN
     /\ TotalSlots(s1) <= cap
     /\ alive' = alive \cup {n}
     /\ proto' = p1
     /\ slots' = s1
     /\ last' = [op |-> "newCat", node |-> n, target |-> CatPrototypeNode,
                 was |-> Null, key |-> NoKey, val |-> name, res |-> "ok"]
  /\ UNCHANGED isFlying

\* Animal.prototype.walk = function () {...}
AssignWalk(cap) == Set(AnimalPrototypeNode, "walk", WalkFn, cap)

\* Cat.prototype.meow = function () {...}
AssignMeow(cap) ==
  /\ CatPrototypeNode \in alive
  /\ Set(CatPrototypeNode, "meow", MeowFn, cap)

\* Object.defineProperty(Cat.prototype, 'constructor', {...})
DefineConstructor(cap) ==
  /\ CatPrototypeNode \in alive
  /\ DefineOmitting(CatPrototypeNode, "constructor", ConstructorDescriptor, cap)

\* bill.nickName = function () {...}
AssignNickName(b, cap) == Set(b, "nickName", NickNameFn, cap)

\* for (let prop in n) {...}; keys are the props the loop body sees.
ForInLoop(n) ==
  /\ last' = [op |-> "forin", node |-> n, target |-> Null, was |-> Null,
              key |-> NoKey, val |-> 0, res |-> "ok",
              keys |-> enumerateOwnAndInherited(proto, slots, n)]
  /\ UNCHANGED <<alive, proto, slots, isFlying>>

\* console.log(b.constructor); val is the function found, 0 for none.
ReadConstructor(b) ==
  /\ last' = [op |-> "get", node |-> b, target |-> Null, was |-> Null,
              key |-> "constructor", val |-> Method(proto, slots, b, "constructor"),
              res |-> "ok"]
  /\ UNCHANGED <<alive, proto, slots, isFlying>>

\* Object.assign(t, src) with one source; target names the source, was is
\* the number of own slots t had before the call.
MixInto(t, src, cap) ==
  /\ LET out == mixin(proto, slots, t, src) IN
     /\ TotalSlots(out.s) <= cap
     /\ proto' = out.proto
     /\ slots' = out.s
     /\ last' = [op |-> "mixin", node |-> t, target |-> src, was |-> Len(slots[t]),
                 key |-> NoKey, val |-> 0, res |-> out.res]
  /\ UNCHANGED <<alive, isFlying>>

\* Descriptor runs: objects created with Object.create, one key, every
\* descriptor.
Next ==
  \/ \E d \in alive \cup {Null} : CreateNode(d, NumObjs)
  \/ \E n \in alive, k \in DescKeys, v \in Values : Set(n, k, v, MaxSlots)
  \/ \E n \in alive, k \in DescKeys, d \in Descriptors : DefineOwn(n, k, d, MaxSlots)

Spec == Init /\ [][Next]_vars

\* Own-slot runs: every descriptor applied over and over to the same slot.
NextOwn ==
  \/ \E d \in alive \cup {Null} : CreateNode(d, NumOwn)
  \/ \E n \in alive, d \in alive \cup {Null} : LinkDelegate(n, d)
  \/ \E n \in alive, k \in Keys, v \in Values : Set(n, k, v, OwnSlots)
  \/ \E n \in alive, k \in Keys, d \in Descriptors : DefineOwn(n, k, d, OwnSlots)

SpecOwn == Init /\ [][NextOwn]_vars

\* Only object creation and re-linking.
NextLink ==
  \/ \E d \in alive \cup {Null} : CreateNode(d, NumNodes)
  \/ \E n \in alive, d \in alive \cup {Null} : LinkDelegate(n, d)

SpecLink == Init /\ [][NextLink]_vars

\* Chains of NumNodes objects, re-linked and populated by plain assignment.
NextChain ==
  \/ \E d \in alive \cup {Null} : CreateNode(d, NumNodes)
  \/ \E n \in alive, d \in alive \cup {Null} : LinkDelegate(n, d)
  \/ \E n \in alive, k \in DescKeys, v \in Values : Set(n, k, v, MaxSlots)

SpecChain == Init /\ [][NextChain]_vars

\* Enumeration runs: two keys, slots differing in enumerability.
NextEnum ==
  \/ \E d \in alive \cup {Null} : CreateNode(d, NumObjs)
  \/ \E n \in alive, k \in Keys, v \in Values : Set(n, k, v, EnumSlots)
  \/ \E n \in alive, k \in Keys, d \in EnumDescriptors : DefineOwn(n, k, d, EnumSlots)

SpecEnum == Init /\ [][NextEnum]_vars

\* Merge runs start from any heap of NumNodes objects, the second one
\* created from Null or by Object.create(first), the others literals, holding
\* at most MergeSlots slots made by assignment or, for the descriptor key,
\* by Object.defineProperty(o, k, {value, enumerable: false}).
MergeSlotForms(k) ==
  {AssignedSlot(k, v) : v \in Values} \cup
  {MkSlot(k, [value |-> 1, writable |-> FALSE, enumerable |-> FALSE,
              configurable |-> FALSE]) : x \in {k} \cap DescKeys}

MergeSlotSeqs ==
  LET forms == UNION {MergeSlotForms(k) : k \in Keys} IN
  {<<>>} \cup {<<r>> : r \in forms} \cup
  {q \in {<<r1, r2>> : r1 \in forms, r2 \in forms} : q[1].key # q[2].key}

InitMerge ==
  /\ alive = Nodes
  /\ proto \in {p \in [Nodes -> {Null, 1}] : \A n \in Nodes : p[n] # Null => n = 2}
  /\ slots \in {s \in [Nodes -> MergeSlotSeqs] : TotalSlots(s) <= MergeSlots}
  /\ last = [op |-> "init", node |-> Null, target |-> Null, was |-> Null,
             key |-> NoKey, val |-> 0, res |-> "ok"]
  /\ isFlying = [n \in Nodes |-> FALSE]

NextMerge ==
  \E t \in alive : \E srcs \in SrcLists(alive \ {t}) : MergeInto(t, srcs, MergeSlots)

SpecMerge == InitMerge /\ [][NextMerge]_vars

\* Flag runs: literals whose one key is assigned, defined with every
\* descriptor and merged into one another.
NextKeep ==
  \/ CreateNode(Null, NumObjs)
  \/ \E n \in alive, k \in DescKeys, v \in Values : Set(n, k, v, MaxSlots)
  \/ \E n \in alive, k \in DescKeys, d \in Descriptors : DefineOwn(n, k, d, MaxSlots)
  \/ \E t \in alive : \E srcs \in SrcLists(alive \ {t}) : MergeInto(t, srcs, MaxSlots)

SpecKeep == Init /\ [][NextKeep]_vars

\* Default-flag runs: assignment and descriptor literals on the same slots.
NextDefault ==
  \/ CreateNode(Null, NumOwn)
  \/ \E n \in alive, k \in Keys, v \in Values : Set(n, k, v, OwnSlots)
  \/ \E n \in alive, k \in Keys, pd \in PartialDescriptors :
       DefineOmitting(n, k, pd, OwnSlots)

SpecDefault == Init /\ [][NextDefault]_vars

\* Failure runs: literals re-linked, assigned one value, made read-only with
\* Object.defineProperty(o, k, {value, enumerable: true}), asked back to
\* the flags of an assigned slot, and merged into one another.
AtomicValues == {1}
AtomicDescriptors ==
  {d \in Descriptors : /\ d.value \in AtomicValues
                       /\ d.enumerable
                       /\ d.writable = d.configurable}

NextAtomic ==
  \/ CreateNode(Null, NumObjs)
  \/ \E n \in alive, d \in alive \cup {Null} : LinkDelegate(n, d)
  \/ \E n \in alive, k \in Keys, v \in AtomicValues : Set(n, k, v, MergeSlots)
  \/ \E n \in alive, k \in DescKeys, d \in AtomicDescriptors :
       DefineOwn(n, k, d, MergeSlots)
  \/ \E t \in alive : \E srcs \in SrcLists(alive \ {t}) : MergeInto(t, srcs, MergeSlots)

SpecAtomic == Init /\ [][NextAtomic]_vars

\* Hash runs: transactions created with Object.create, sender and recipient
\* assigned on any of them, calculateHash called on any of them.
NextHash ==
  \/ \E d \in alive \cup {Null} : CreateNode(d, NumObjs)
  \/ \E n \in alive, k \in HashKeys, v \in Values : Set(n, k, v, MaxSlots)
  \/ \E n \in alive : CalculateHash(n)

SpecHash == Init /\ [][NextHash]_vars

\* Constructor runs: the function's prototype object exists from the start
\* with its constructor slot; instances are built, their calculateHash is
\* called, and the shared method is added at any point.
InitNew ==
  /\ alive = {PrototypeNode}
  /\ proto = [n \in Nodes |-> Null]
  /\ slots = [n \in Nodes |->
                IF n = PrototypeNode
                THEN <<[key |-> "constructor", value |-> ConstructorFn,
                        writable |-> TRUE, enumerable |-> FALSE,
                        configurable |-> TRUE]>>
                ELSE <<>>]
  /\ last = [op |-> "init", node |-> Null, target |-> Null, was |-> Null,
             key |-> NoKey, val |-> 0, res |-> "ok"]
  /\ isFlying = [n \in Nodes |-> FALSE]

Instances == alive \ {PrototypeNode}

NextNew ==
  \/ \E sender \in Values, recipient \in Values, viaNew \in BOOLEAN :
       New(sender, recipient, viaNew, NewSlots)
  \/ AddPrototypeMethod(NewSlots)
  \/ \E n \in Instances : CalculateHash(n)

SpecNew == InitNew /\ [][NextNew]_vars

\* Descriptor-then-merge runs: object literals, a assigned, b defined with
\* the literal {value, enumerable}, and the objects merged into one another.
NotesDescriptors ==
  {pd \in PartialDescriptors : /\ pd.value \in AtomicValues
                               /\ pd.omits = {"writable", "configurable"}}

NextNotes ==
  \/ CreateNode(Null, NumNodes)
  \/ \E n \in alive, v \in AtomicValues : Set(n, "a", v, NotesSlots)
  \/ \E n \in alive, pd \in NotesDescriptors : DefineOmitting(n, "b", pd, NotesSlots)
  \/ \E t \in alive : \E srcs \in SrcLists(alive \ {t}) : MergeInto(t, srcs, NotesSlots)

SpecNotes == Init /\ [][NextNotes]_vars

\* Store runs: the three linked objects of the script; init and push are
\* called on Blockchain and on chain in any order.
InitStore ==
  /\ alive = {MyStoreNode, BlockchainNode, ChainNode}
  /\ proto = [n \in Nodes |-> IF n = BlockchainNode THEN MyStoreNode
                              ELSE IF n = ChainNode THEN BlockchainNode
                              ELSE Null]
  /\ slots = [n \in Nodes |->
                IF n = MyStoreNode
                THEN <<AssignedSlot("init", InitFn), AssignedSlot("push", PushFn)>>
                ELSE <<>>]
  /\ last = [op |-> "start", node |-> Null, target |-> Null, was |-> Null,
             key |-> NoKey, val |-> 0, res |-> "ok"]
  /\ isFlying = [n \in Nodes |-> FALSE]

Stores == {n \in alive : IsPrototypeOf(proto, MyStoreNode, n)}

NextStore ==
  \/ \E r \in Stores, e \in Values : StoreInit(r, e)
  \/ \E r \in Stores, b \in Values : StorePush(r, b, StoreLen)

SpecStore == InitStore /\ [][NextStore]_vars

\* Flying runs: literals and Object.create children, a assigned on any of
\* them, flying called on any of them, and the three methods called on
\* whatever resolves them.
NextFly ==
  \/ \E d \in alive \cup {Null} : CreateNode(d, NumNodes)
  \/ \E n \in alive, v \in AtomicValues : Set(n, "a", v, FlySlots)
  \/ \E o \in alive : Flying(o, FlySlots)
  \/ \E r \in alive : Fly(r)
  \/ \E r \in alive : Land(r)
  \/ \E r \in alive : IsFlyingCall(r)

SpecFly == Init /\ [][NextFly]_vars

\* The objects flying returned: each holds the fly its own call created.
Birds == {n \in alive : HasOwn(slots, n, "fly") /\ OwnSlot(slots, n, "fly").value = FlyFn(n)}

\* OLOO runs: Animal and Dog as the script builds them; objects are created
\* from either and initialised, init is called again on any object, and eat
\* and bark are called on whatever resolves them.
InitOloo ==
  /\ alive = {AnimalNode, DogNode}
  /\ proto = [n \in Nodes |-> IF n = DogNode THEN AnimalNode ELSE Null]
  /\ slots = [n \in Nodes |->
                IF n = AnimalNode
                THEN <<AssignedSlot("init", AnimalInitFn), AssignedSlot("eat", EatFn)>>
                ELSE IF n = DogNode
                THEN <<AssignedSlot("init", DogInitFn), AssignedSlot("bark", BarkFn)>>
                ELSE <<>>]
  /\ last = [op |-> "start", node |-> Null, target |-> Null, was |-> Null,
             key |-> NoKey, val |-> 0, res |-> "ok"]
  /\ isFlying = [n \in Nodes |-> FALSE]

NextOloo ==
  \/ \E d \in alive, name \in Values, breed \in Values : CreateInit(d, name, breed)
  \/ \E r \in alive, name \in Values, breed \in Values : CallInit(r, name, breed)
  \/ \E r \in alive, k \in {"eat", "bark"} : Speak(r, k)

SpecOloo == InitOloo /\ [][NextOloo]_vars

\* Cat runs: Animal.prototype exists from the start with its constructor
\* slot; the statements of the script run in any order once the objects
\* they name exist.
InitCat ==
  /\ alive = {AnimalPrototypeNode}
  /\ proto = [n \in Nodes |-> Null]
  /\ slots = [n \in Nodes |->
                IF n = AnimalPrototypeNode
                THEN <<[key |-> "constructor", value |-> AnimalFn,
                        writable |-> TRUE, enumerable |-> FALSE,
                        configurable |-> TRUE]>>
                ELSE <<>>]
  /\ last = [op |-> "start", node |-> Null, target |-> Null, was |-> Null,
             key |-> NoKey, val |-> 0, res |-> "ok"]
  /\ isFlying = [n \in Nodes |-> FALSE]

Cats == {n \in alive : proto[n] = CatPrototypeNode}

NextCat ==
  \/ AssignWalk(CatSlots)
  \/ NewAnimal(CatSlots)
  \/ AssignMeow(CatSlots)
  \/ DefineConstructor(CatSlots)
  \/ \E name \in Values : NewCat(name, CatSlots)
  \/ \E b \in Cats : AssignNickName(b, CatSlots)
  \/ \E n \in alive : ForInLoop(n)
  \/ \E b \in alive : ReadConstructor(b)

SpecCat == InitCat /\ [][NextCat]_vars

\* Mixin runs: literals and Object.create children, two keys assigned, the
\* descriptor key made non-enumerable, and any object mixed into any other.
NextMixin ==
  \/ \E d \in alive \cup {Null} : CreateNode(d, NumObjs)
  \/ \E n \in alive, k \in Keys, v \in Values : Set(n, k, v, MaxSlots)
  \/ \E n \in alive, k \in DescKeys, d \in EnumDescriptors : DefineOwn(n, k, d, MaxSlots)
  \/ \E t \in alive : \E src \in alive \ {t} : MixInto(t, src, MaxSlots)

SpecMixin == Init /\ [][NextMixin]_vars

\* ---- vocabulary for stating the properties ----
Min(S) == CHOOSE x \in S : \A y \in S : x <= y

\* The delegate chain of n as a sequence, n first.
RECURSIVE ChainFrom(_, _, _)
ChainFrom(p, n, fuel) ==
  IF n = Null \/ fuel = 0 THEN <<>> ELSE <<n>> \o ChainFrom(p, p[n], fuel - 1)
ChainOf(p, n) == ChainFrom(p, n, NumNodes)

\* Every object reached from n by one or more delegate links.
RECURSIVE Closure(_, _, _)
Closure(p, S, i) ==
  IF i = 0 THEN S ELSE Closure(p, S \cup ({p[m] : m \in S} \ {Null}), i - 1)
Ancestors(p, n) == Closure(p, {p[n]} \ {Null}, NumNodes)

\* Positions along n's chain of the objects that own key k.
Holders(p, s, n, k) ==
  {i \in 1..Len(ChainOf(p, n)) : HasOwn(s, ChainOf(p, n)[i], k)}
FirstHolder(p, s, n, k) == ChainOf(p, n)[Min(Holders(p, s, n, k))]

Max(S) == CHOOSE x \in S : \A y \in S : x >= y

\* Positions in srcs of the sources that own key k as an enumerable slot.
Donors(s, srcs, k) ==
  {i \in 1..Len(srcs) : /\ HasOwn(s, srcs[i], k)
                        /\ OwnSlot(s, srcs[i], k).enumerable}

\* A key some source donates while the slot the target resolves it to,
\* its own or an inherited one, is non-writable.
Blocked(p, s, t, srcs) ==
  \E k \in Keys :
    /\ Donors(s, srcs, k) # {}
    /\ Holders(p, s, t, k) # {}
    /\ ~OwnSlot(s, FirstHolder(p, s, t, k), k).writable

\* C1: for every acyclic chain and every key, get(node, key) is
\* Found(value, owner) with owner the first object along the chain (node
\* itself first) that owns key, and NotFound when no object of the chain
\* owns it; with a -> b -> c and only c owning k, get(a, k) = Found(c.k, c).
C1_GetFirstOwner ==
  \A n \in alive, k \in Keys :
    IF Holders(proto, slots, n, k) = {}
    THEN Get(proto, slots, n, k) = NotFound
    ELSE LET o == FirstHolder(proto, slots, n, k) IN
         Get(proto, slots, n, k) = Found(OwnSlot(slots, o, k).value, o)

C1_Witness ==
  \E a \in alive, k \in DescKeys :
    LET b == proto[a] IN
    /\ b # Null
    /\ proto[b] # Null
    /\ Holders(proto, slots, a, k) = {3}
    /\ Get(proto, slots, a, k) = Found(OwnSlot(slots, proto[b], k).value, proto[b])

\* C2: shadowing: an object that owns key k resolves k to its own value
\* with itself as owner, whatever value and flags a delegate holds for k.
C2_Shadowing ==
  \A n \in alive, k \in DescKeys :
    HasOwn(slots, n, k) =>
      Get(proto, slots, n, k) = Found(OwnSlot(slots, n, k).value, n)

C2_Witness ==
  \E n \in alive, k \in DescKeys :
    /\ proto[n] # Null
    /\ HasOwn(slots, n, k)
    /\ HasOwn(slots, proto[n], k)
    /\ OwnSlot(slots, proto[n], k).value # OwnSlot(slots, n, k).value
    /\ ~OwnSlot(slots, proto[n], k).enumerable
    /\ ~OwnSlot(slots, proto[n], k).configurable
    /\ Get(proto, slots, n, k).owner = n

\* C3 as stated: a set changes no other object, and when node had no own
\* slot for key it has one holding value afterwards, whatever slots
\* (non-writable ones included) its delegates hold for key.
C3_Original ==
  [][last'.op = "set" =>
       LET n == last'.node
           k == last'.key
       IN /\ \A m \in Nodes \ {n} : slots'[m] = slots[m]
          /\ proto' = proto
          /\ ~HasOwn(slots, n, k) =>
               /\ HasOwn(slots', n, k)
               /\ OwnSlot(slots', n, k).value = last'.val]_vars

\* C3 amended: a set changes no other object and no link; when node had no
\* own slot for key and the nearest delegate slot for key, if any, is
\* writable, node afterwards owns a slot holding value with all three flags
\* true; when the nearest delegate slot for key is non-writable the set is
\* silently ignored and nothing changes.
C3_SetOwnOnly ==
  [][last'.op = "set" =>
       LET n == last'.node
           k == last'.key
           inherited == ~HasOwn(slots, n, k) /\ Holders(proto, slots, n, k) # {}
           blocked == /\ inherited
                      /\ ~OwnSlot(slots, FirstHolder(proto, slots, n, k), k).writable
       IN /\ \A m \in Nodes \ {n} : slots'[m] = slots[m]
          /\ proto' = proto
          /\ (~HasOwn(slots, n, k) /\ ~blocked) =>
               /\ HasOwn(slots', n, k)
               /\ OwnSlot(slots', n, k) = AssignedSlot(k, last'.val)
               /\ last'.res = "ok"
          /\ blocked => (slots' = slots /\ last'.res = "ignored")]_vars

C3_Witness ==
  /\ last.op = "set"
  /\ last.res = "ok"
  /\ proto[last.node] # Null
  /\ HasOwn(slots, proto[last.node], last.key)
  /\ ~OwnSlot(slots, proto[last.node], last.key).enumerable
  /\ ~OwnSlot(slots, proto[last.node], last.key).configurable
  /\ OwnSlot(slots, proto[last.node], last.key).value # last.val
  /\ HasOwn(slots, last.node, last.key)
  /\ OwnSlot(slots, last.node, last.key) = AssignedSlot(last.key, last.val)

\* C4: a set on an own slot with writable = false raises no error and
\* changes nothing: the slot keeps its value and flags.
C4_NonWritablePreserved ==
  [][(/\ last'.op = "set"
      /\ HasOwn(slots, last'.node, last'.key)
      /\ ~OwnSlot(slots, last'.node, last'.key).writable) =>
       (slots' = slots /\ proto' = proto /\ last'.res = "ignored")]_vars

C4_Witness ==
  /\ last.op = "set"
  /\ last.res = "ignored"
  /\ last.val = 2
  /\ HasOwn(slots, last.node, last.key)
  /\ OwnSlot(slots, last.node, last.key) =
       [key |-> last.key, value |-> 1, writable |-> FALSE,
        enumerable |-> TRUE, configurable |-> TRUE]

\* C5 as stated: on a non-configurable own slot defineOwn fails whenever the
\* descriptor would change any of the three flags, or the value of a
\* non-writable slot; on an absent or configurable slot it succeeds and the
\* slot afterwards is exactly the descriptor.
C5_Original ==
  \A n \in alive, k \in Keys, d \in Descriptors :
    /\ (/\ HasOwn(slots, n, k)
        /\ ~OwnSlot(slots, n, k).configurable
        /\ \/ d.writable # OwnSlot(slots, n, k).writable
           \/ d.enumerable # OwnSlot(slots, n, k).enumerable
           \/ d.configurable # OwnSlot(slots, n, k).configurable
           \/ /\ ~OwnSlot(slots, n, k).writable
              /\ d.value # OwnSlot(slots, n, k).value)
         => DefineOutcome(slots, n, k, d) = "ConfigurationError"
    /\ (~HasOwn(slots, n, k) \/ OwnSlot(slots, n, k).configurable)
         => /\ DefineOutcome(slots, n, k, d) = "ok"
            /\ OwnSlot(DefineApply(slots, n, k, d), n, k) = MkSlot(k, d)

\* The redefinitions a non-configurable own slot is protected against.
C5_Protected(n, k, d) ==
  /\ HasOwn(slots, n, k)
  /\ ~OwnSlot(slots, n, k).configurable
  /\ \/ d.configurable # OwnSlot(slots, n, k).configurable
     \/ d.enumerable # OwnSlot(slots, n, k).enumerable
     \/ /\ ~OwnSlot(slots, n, k).writable
        /\ \/ d.writable # OwnSlot(slots, n, k).writable
           \/ d.value # OwnSlot(slots, n, k).value

\* C5 amended: on a non-configurable own slot defineOwn fails with
\* ConfigurationError exactly when the descriptor would change configurable
\* or enumerable, or, the slot being non-writable, would turn writable on or
\* change the value; turning writable off on a non-configurable writable
\* slot is accepted.  A failed call changes nothing; a successful one, and
\* every call on an absent or configurable slot, leaves the slot exactly the
\* descriptor.
C5_DefineOwnProtected ==
  /\ [](\A n \in alive, k \in Keys, d \in Descriptors :
          IF C5_Protected(n, k, d)
          THEN /\ DefineOutcome(slots, n, k, d) = "ConfigurationError"
               /\ DefineApply(slots, n, k, d) = slots
          ELSE /\ DefineOutcome(slots, n, k, d) = "ok"
               /\ OwnSlot(DefineApply(slots, n, k, d), n, k) = MkSlot(k, d))
  /\ [][last'.op = "define" =>
         /\ last'.res = "ConfigurationError" => slots' = slots
         /\ last'.res = "ok" =>
              /\ HasOwn(slots', last'.node, last'.key)
              /\ OwnSlot(slots', last'.node, last'.key).value = last'.val
         /\ \A m \in Nodes \ {last'.node} : slots'[m] = slots[m]
         /\ proto' = proto]_vars

C5_Witness ==
  /\ last.op = "define"
  /\ last.res = "ConfigurationError"
  /\ HasOwn(slots, last.node, last.key)
  /\ ~OwnSlot(slots, last.node, last.key).configurable
  /\ OwnSlot(slots, last.node, last.key).writable
  /\ OwnSlot(slots, last.node, last.key).value # last.val

\* C6: linkDelegate(a, a) always fails with CycleError, and right after a
\* successful linkDelegate(a, b) a linkDelegate(b, a) fails with CycleError.
C6_CycleRejection ==
  [][last'.op = "link" =>
       /\ last'.node = last'.target =>
            (last'.res = "CycleError" /\ proto' = proto)
       /\ (/\ last.op = "link"
           /\ last.res = "ok"
           /\ last'.node = last.target
           /\ last'.target = last.node) =>
            (last'.res = "CycleError" /\ proto' = proto)]_vars

C6_Witness ==
  /\ last.op = "link"
  /\ last.res = "CycleError"
  /\ last.node # last.target
  /\ proto[last.target] = last.node

\* C7: after any sequence of object creations and linkDelegate calls,
\* successful or failed, no object appears in its own delegate chain.
C7_Acyclic ==
  \A n \in Nodes : n \notin Ancestors(proto, n)

C7_Witness ==
  /\ last.op = "link"
  /\ last.res = "ok"
  /\ last.was # Null
  /\ last.target # Null
  /\ last.was # last.target
  /\ proto[last.target] # Null

\* C8 as stated: linkDelegate(node, delegate) fails with CycleError whenever
\* delegate is already reachable from node.
C8_Original ==
  [][(last'.op = "link" /\ last'.target \in Ancestors(proto, last'.node)) =>
       last'.res = "CycleError"]_vars

\* C8 amended: linkDelegate(node, delegate) fails with CycleError exactly
\* when node is reachable from delegate (delegate = node included), leaving
\* every link as it was; in every other case, also when delegate is already
\* reachable from node, it succeeds and node.delegate = delegate afterwards
\* with no other link changed.
C8_LinkOutcome ==
  [][last'.op = "link" =>
       LET n == last'.node
           d == last'.target
           cyc == d # Null /\ (d = n \/ n \in Ancestors(proto, d))
       IN /\ last'.res = (IF cyc THEN "CycleError" ELSE "ok")
          /\ cyc => proto' = proto
          /\ ~cyc => proto' = [proto EXCEPT ![n] = d]]_vars

C8_Witness ==
  /\ last.op = "link"
  /\ last.res = "ok"
  /\ last.was # Null
  /\ last.target # Null
  /\ proto[last.was] = last.target
  /\ proto[last.node] = last.target

\* C9 as stated: enumerateOwnAndInherited(node) yields exactly the keys
\* that are enumerable somewhere along node's chain.
C9_Original ==
  \A n \in alive :
    Range(enumerateOwnAndInherited(proto, slots, n)) =
      {k \in Keys : \E i \in 1..Len(ChainOf(proto, n)) :
         /\ HasOwn(slots, ChainOf(proto, n)[i], k)
         /\ OwnSlot(slots, ChainOf(proto, n)[i], k).enumerable}

\* C9 amended: enumerateOwnAndInherited(node) yields exactly the keys whose
\* first slot along node's chain is enumerable, each once, ordered by the
\* chain position of that first slot (node's own keys first) and within one
\* object by the order of its own keys; the value read for a yielded key is
\* that first slot's value.
C9_Enumerate ==
  \A n \in alive :
    LET E == enumerateOwnAndInherited(proto, slots, n)
        pos(k) == Min(Holders(proto, slots, n, k))
        idx(k) == CHOOSE i \in OwnIdx(slots, FirstHolder(proto, slots, n, k), k) : TRUE
    IN /\ \A k \in Keys :
            k \in Range(E) <=>
              /\ Holders(proto, slots, n, k) # {}
              /\ OwnSlot(slots, FirstHolder(proto, slots, n, k), k).enumerable
       /\ \A i, j \in 1..Len(E) :
            i < j => /\ E[i] # E[j]
                     /\ \/ pos(E[i]) < pos(E[j])
                        \/ pos(E[i]) = pos(E[j]) /\ idx(E[i]) < idx(E[j])
       /\ \A i \in 1..Len(E) :
            Get(proto, slots, n, E[i]).value =
              OwnSlot(slots, FirstHolder(proto, slots, n, E[i]), E[i]).value

C9_Witness ==
  \E c \in alive :
    /\ proto[c] # Null
    /\ slots[proto[c]] =
         << [key |-> "a", value |-> 1, writable |-> TRUE,
             enumerable |-> TRUE, configurable |-> TRUE],
            [key |-> "b", value |-> 2, writable |-> TRUE,
             enumerable |-> FALSE, configurable |-> TRUE] >>
    /\ slots[c] = << AssignedSlot("a", 2) >>
    /\ enumerateOwnAndInherited(proto, slots, c) = << "a" >>
    /\ Get(proto, slots, c, "a") = Found(2, c)

\* C10: isPrototypeOf(candidate, node) holds exactly when candidate is
\* reached from node by one or more delegate links: never for the node
\* itself, never for a descendant asked about its ancestor.
C10_IsPrototypeOf ==
  \A c \in alive, n \in alive :
    /\ IsPrototypeOf(proto, c, n) <=> c \in Ancestors(proto, n)
    /\ ~IsPrototypeOf(proto, n, n)
    /\ IsPrototypeOf(proto, c, n) => ~IsPrototypeOf(proto, n, c)

C10_Witness ==
  \E a \in alive :
    LET b == proto[a] IN
    /\ b # Null
    /\ proto[b] # Null
    /\ IsPrototypeOf(proto, proto[b], a)
    /\ ~IsPrototypeOf(proto, a, proto[b])
    /\ ~IsPrototypeOf(proto, a, a)

\* C11 as stated: mergeInto(target, s1, ..., sn) returns the target, and for
\* every key the target's final value is the value of the right-most source
\* that owns the key as an enumerable slot, or the target's previous value
\* when no source does.
C11_Original ==
  \A t \in alive : \A srcs \in SrcLists(alive \ {t}) :
    LET r == mergeInto(proto, slots, t, srcs) IN
    /\ r.res = "ok"
    /\ \A k \in Keys :
         IF Donors(slots, srcs, k) = {}
         THEN Get(proto, r.s, t, k) = Get(proto, slots, t, k)
         ELSE Get(proto, r.s, t, k) =
                Found(OwnSlot(slots, srcs[Max(Donors(slots, srcs, k))], k).value, t)

\* C11 amended: mergeInto fails with TypeError exactly when some source
\* donates a key that the target resolves to a non-writable slot (its own
\* or an inherited one); otherwise it returns the target, every donated key
\* is an own slot of the target holding the value of the right-most source
\* that donates it, and every other key resolves as before.  No source and
\* no delegate link is changed either way.
C11_MergePrecedence ==
  \A t \in alive : \A srcs \in SrcLists(alive \ {t}) :
    LET r == mergeInto(proto, slots, t, srcs) IN
    /\ r.res = (IF Blocked(proto, slots, t, srcs) THEN "TypeError" ELSE "ok")
    /\ \A m \in Nodes \ {t} : r.s[m] = slots[m]
    /\ r.res = "ok" =>
         \A k \in Keys :
           IF Donors(slots, srcs, k) = {}
           THEN Get(proto, r.s, t, k) = Get(proto, slots, t, k)
           ELSE Get(proto, r.s, t, k) =
                  Found(OwnSlot(slots, srcs[Max(Donors(slots, srcs, k))], k).value, t)

C11_Witness ==
  /\ last.op = "merge"
  /\ last.res = "ok"
  /\ \E s1 \in alive \ {last.node}, s2 \in alive \ {last.node} :
       /\ slots[s1] = << AssignedSlot("a", 1) >>
       /\ slots[s2] = << AssignedSlot("a", 2) >>
       /\ slots[last.node] = << AssignedSlot("a", 2) >>
       /\ mergeInto(proto, slots, last.node, <<s1, s2>>).s = slots

\* C12: mergeInto copies only own enumerable slots: a key that no source
\* owns as an enumerable slot (a source owns it non-enumerable, or only
\* inherits it) leaves the target's own slots for that key exactly as they
\* were, so the own keys of a merge into an empty object are exactly the
\* own enumerable keys of the sources.
C12_OwnEnumerableOnly ==
  \A t \in alive : \A srcs \in SrcLists(alive \ {t}) :
    LET r == mergeInto(proto, slots, t, srcs) IN
    /\ \A k \in Keys :
         Donors(slots, srcs, k) = {} =>
           /\ HasOwn(r.s, t, k) = HasOwn(slots, t, k)
           /\ HasOwn(slots, t, k) => OwnSlot(r.s, t, k) = OwnSlot(slots, t, k)
    /\ (slots[t] = <<>> /\ r.res = "ok") =>
         {k \in Keys : HasOwn(r.s, t, k)} =
           {k \in Keys : Donors(slots, srcs, k) # {}}

C12_Witness ==
  /\ last.op = "merge"
  /\ last.res = "ok"
  /\ \E c \in alive \ {last.node} :
       /\ proto[c] # Null
       /\ HasOwn(slots, proto[c], "a")
       /\ OwnSlot(slots, proto[c], "a").enumerable
       /\ Get(proto, slots, c, "a").found
       /\ {k \in Keys : HasOwn(slots, c, k)} = {"b"}
       /\ proto[last.node] = Null
       /\ slots[last.node] = << AssignedSlot("b", OwnSlot(slots, c, "b").value) >>
       /\ mergeInto(proto, slots, last.node, <<c>>).s = slots

\* C13 as stated: every key mergeInto copies ends up in the target as an
\* own slot with writable, enumerable and configurable all true, whatever
\* the source slot's flags and whatever flags the target's slot had before.
C13_Original ==
  \A t \in alive : \A srcs \in SrcLists(alive \ {t}) :
    LET r == mergeInto(proto, slots, t, srcs) IN
    \A k \in Keys :
      (r.res = "ok" /\ Donors(slots, srcs, k) # {}) =>
        /\ HasOwn(r.s, t, k)
        /\ OwnSlot(r.s, t, k).writable
        /\ OwnSlot(r.s, t, k).enumerable
        /\ OwnSlot(r.s, t, k).configurable

\* C13 amended: every key mergeInto copies ends up as an own slot of the
\* target; a slot the copy creates has all three flags true whatever the
\* source slot's flags, and a slot the target already owned keeps the flags
\* it had and only takes the new value.
C13_MergeFlags ==
  \A t \in alive : \A srcs \in SrcLists(alive \ {t}) :
    LET r == mergeInto(proto, slots, t, srcs) IN
    \A k \in Keys :
      (r.res = "ok" /\ Donors(slots, srcs, k) # {}) =>
        LET v == OwnSlot(slots, srcs[Max(Donors(slots, srcs, k))], k).value IN
        /\ HasOwn(r.s, t, k)
        /\ IF HasOwn(slots, t, k)
           THEN OwnSlot(r.s, t, k) = [OwnSlot(slots, t, k) EXCEPT !.value = v]
           ELSE OwnSlot(r.s, t, k) = AssignedSlot(k, v)

C13_Witness ==
  /\ last.op = "merge"
  /\ last.res = "ok"
  /\ \E s1 \in alive \ {last.node} :
       /\ slots[s1] = << [AssignedSlot("a", 2) EXCEPT !.writable = FALSE,
                                                     !.configurable = FALSE] >>
       /\ slots[last.node] = << [AssignedSlot("a", 2) EXCEPT !.enumerable = FALSE] >>
       /\ mergeInto(proto, slots, last.node, <<s1>>).s = slots

\* C14: a slot created by plain assignment has writable, enumerable and
\* configurable all true; a slot created by defineOwn has every flag its
\* descriptor leaves out false (all three when all are left out) and every
\* flag it gives as given.
C14_DefaultFlags ==
  /\ [](\A n \in alive, k \in Keys, pd \in PartialDescriptors :
          ~HasOwn(slots, n, k) =>
            LET d == CompleteDescriptor(slots, n, k, pd)
                new == DefineApply(slots, n, k, d)
            IN /\ DefineOutcome(slots, n, k, d) = "ok"
               /\ HasOwn(new, n, k)
               /\ OwnSlot(new, n, k).value = pd.value
               /\ \A f \in FlagNames :
                    OwnSlot(new, n, k)[f] = (f \notin pd.omits /\ pd[f]))
  /\ [][(/\ last'.op = "set"
         /\ last'.res = "ok"
         /\ ~HasOwn(slots, last'.node, last'.key)) =>
          /\ HasOwn(slots', last'.node, last'.key)
          /\ OwnSlot(slots', last'.node, last'.key) =
               [key |-> last'.key, value |-> last'.val, writable |-> TRUE,
                enumerable |-> TRUE, configurable |-> TRUE]]_vars

C14_Witness ==
  /\ last.op = "define"
  /\ last.res = "ok"
  /\ slots[last.node] =
       << [key |-> last.key, value |-> last.val, writable |-> FALSE,
           enumerable |-> FALSE, configurable |-> FALSE] >>
  /\ \A pd \in PartialDescriptors :
       (pd.omits = FlagNames /\ pd.value = last.val) =>
         MkSlot(last.key, CompleteDescriptor([slots EXCEPT ![last.node] = <<>>],
                                             last.node, last.key, pd))
           = slots[last.node][1]

\* C15: across any sequence of set, defineOwn and mergeInto calls, an own
\* slot that has configurable = false is still an own slot of its object
\* after the call, still with configurable = false, and if its writable was
\* false it is still false.
C15_NonConfigurableStays ==
  [][\A n \in alive, k \in Keys :
       (HasOwn(slots, n, k) /\ ~OwnSlot(slots, n, k).configurable) =>
         /\ HasOwn(slots', n, k)
         /\ ~OwnSlot(slots', n, k).configurable
         /\ ~OwnSlot(slots, n, k).writable => ~OwnSlot(slots', n, k).writable]_vars

C15_Witness ==
  /\ last.op = "merge"
  /\ last.res = "ok"
  /\ HasOwn(slots, last.node, "a")
  /\ ~OwnSlot(slots, last.node, "a").configurable
  /\ OwnSlot(slots, last.node, "a").writable
  /\ \E s1 \in alive \ {last.node} :
       /\ Donors(slots, <<s1>>, "a") # {}
       /\ OwnSlot(slots, s1, "a").value = OwnSlot(slots, last.node, "a").value

\* C16 as stated: every operation is atomic: a call that fails leaves the
\* slots, flags and delegate links of every object exactly as they were.
C16_Original ==
  [][last'.res \in {"CycleError", "ConfigurationError", "TypeError"} =>
       (slots' = slots /\ proto' = proto /\ alive' = alive)]_vars

\* C16 amended: a linkDelegate that fails with CycleError and a defineOwn
\* that fails with ConfigurationError leave the slots, flags and delegate
\* links of every object exactly as they were; a mergeInto that fails with
\* TypeError leaves every delegate link and every object but the target as
\* they were, and on the target keeps what it copied before the failure:
\* the target's earlier slots are all still there with their flags.
C16_Atomic ==
  [][/\ last'.res \in {"CycleError", "ConfigurationError"} =>
          (slots' = slots /\ proto' = proto /\ alive' = alive)
     /\ last'.res = "TypeError" =>
          /\ last'.op = "merge"
          /\ proto' = proto
          /\ alive' = alive
          /\ \A m \in Nodes \ {last'.node} : slots'[m] = slots[m]
          /\ \A k \in Keys :
               HasOwn(slots, last'.node, k) =>
                 /\ HasOwn(slots', last'.node, k)
                 /\ [OwnSlot(slots', last'.node, k) EXCEPT !.value = 0] =
                      [OwnSlot(slots, last'.node, k) EXCEPT !.value = 0]]_vars

C16_Witness ==
  /\ last.op = "merge"
  /\ last.res = "TypeError"
  /\ slots[last.node] = << AssignedSlot("b", 1) >>
  /\ proto[last.node] # Null
  /\ Len(slots[proto[last.node]]) = 2
  /\ slots[proto[last.node]][1] = AssignedSlot("b", 1)
  /\ slots[proto[last.node]][2].key = "a"
  /\ slots[proto[last.node]][2].enumerable
  /\ ~slots[proto[last.node]][2].writable

\* ---- C17 ----
\* C17 as written: calculateHash returns the square of the final
\* accumulator, and for sender 'luis@tjoj.com' and recipient 'luke@tjoj.com'
\* that value is the integer 237572532174000400.
C17_Original ==
  last.op = "hash" =>
    /\ last.ret = SquareLimbs(Magnitude(last.val))
    /\ (/\ Get(proto, slots, last.node, "sender").found
        /\ Get(proto, slots, last.node, "sender").value = 1
        /\ Get(proto, slots, last.node, "recipient").found
        /\ Get(proto, slots, last.node, "recipient").value = 2)
       => last.ret = LimbsOf(23, 7572, 5321, 7400, 400)

\* C17: calculateHash folds sender followed by recipient from 0 with a
\* signed 32-bit accumulator and returns the Number nearest the square of the
\* final accumulator.  For 'luis@tjoj.com' / 'luke@tjoj.com' the accumulator
\* is 487414128 and the result is 237572532174000384, the Number that the
\* decimal 237572532174000400 denotes; the result depends only on the values
\* sender and recipient resolve to, not on which object owns them.
C17_CalculateHash ==
  last.op = "hash" =>
    LET n  == last.node
        sn == Get(proto, slots, n, "sender")
        rc == Get(proto, slots, n, "recipient")
    IN /\ last.ret = ToNumber(SquareLimbs(Magnitude(last.val)))
       /\ (~sn.found /\ ~rc.found) =>
            /\ last.val = 0
            /\ last.ret = LimbsOf(0, 0, 0, 0, 0)
       /\ (sn.found /\ rc.found /\ sn.value = 1 /\ rc.value = 2) =>
            /\ last.val = 487414128
            /\ last.ret = LimbsOf(23, 7572, 5321, 7400, 384)
            /\ last.ret = ToNumber(LimbsOf(23, 7572, 5321, 7400, 400))
       /\ \A m \in alive :
            LET sm == Get(proto, slots, m, "sender")
                rm == Get(proto, slots, m, "recipient")
            IN (/\ sm.found = sn.found
                /\ rm.found = rc.found
                /\ sm.found => sm.value = sn.value
                /\ rm.found => rm.value = rc.value)
               => calculateHash(proto, slots, m) = last.ret

\* The hash of the reference pair was taken on an object that inherits
\* sender and recipient from the object it delegates to.
C17_Witness ==
  /\ last.op = "hash"
  /\ proto[last.node] # Null
  /\ slots[last.node] = <<>>
  /\ HasOwn(slots, proto[last.node], "sender")
  /\ HasOwn(slots, proto[last.node], "recipient")
  /\ Get(proto, slots, last.node, "sender").value = 1
  /\ Get(proto, slots, last.node, "recipient").value = 2
  /\ last.val = 487414128

\* ---- C18 ----
IsPrefix(a, b) == Len(a) <= Len(b) /\ \A i \in 1..Len(a) : a[i] = b[i]

\* C18: after any sequence of operations, a read, an isPrototypeOf and a
\* for-in started at any object end: each looks at objects of that object's
\* delegate chain in chain order, at most once each, a read stops at the
\* first object that owns the key, isPrototypeOf at the candidate, and
\* otherwise the walk stops at the object that has no delegate.
C18_WalksTerminate ==
  \A n \in alive :
    LET chain == ChainOf(proto, n)
        fw    == ForInWalk(proto, n, WalkFuel)
    IN /\ fw.done
       /\ fw.nodes = chain
       /\ proto[chain[Len(chain)]] = Null
       /\ \A i, j \in 1..Len(chain) : chain[i] = chain[j] => i = j
       /\ \A k \in DescKeys :
            LET gw == GetWalk(proto, slots, n, k, WalkFuel)
                e  == gw.nodes[Len(gw.nodes)]
            IN /\ gw.done
               /\ gw.nodes # <<>>
               /\ IsPrefix(gw.nodes, chain)
               /\ HasOwn(slots, e, k) \/ proto[e] = Null
               /\ \A i \in 1..(Len(gw.nodes) - 1) : ~HasOwn(slots, gw.nodes[i], k)
               /\ Get(proto, slots, n, k) =
                    IF HasOwn(slots, e, k) THEN Found(OwnSlot(slots, e, k).value, e)
                    ELSE NotFound
       /\ \A cand \in alive :
            LET pw == IsPrototypeOfWalk(proto, cand, n, WalkFuel)
            IN /\ pw.done
               /\ IsPrefix(pw.nodes, Tail(chain))
               /\ \A i \in 1..(Len(pw.nodes) - 1) : pw.nodes[i] # cand
               /\ IsPrototypeOf(proto, cand, n) =
                    (pw.nodes # <<>> /\ pw.nodes[Len(pw.nodes)] = cand)
               /\ ~IsPrototypeOf(proto, cand, n) => pw.nodes = Tail(chain)

\* A chain of three objects was just linked; from its first object a key is
\* found on the second object after two visits, for-in visits all three, and
\* an isPrototypeOf that answers false compared both delegates.
C18_Witness ==
  /\ last.op = "link"
  /\ last.res = "ok"
  /\ \E n \in alive :
       /\ Len(ChainOf(proto, n)) = 3
       /\ \E k \in DescKeys :
            /\ Len(GetWalk(proto, slots, n, k, WalkFuel).nodes) = 2
            /\ Get(proto, slots, n, k).found
       /\ Len(ForInWalk(proto, n, WalkFuel).nodes) = 3
       /\ \E cand \in alive :
            /\ ~IsPrototypeOf(proto, cand, n)
            /\ Len(IsPrototypeOfWalk(proto, cand, n, WalkFuel).nodes) = 2

\* ---- C19 ----
\* Object d is on m's chain and no object before it on that chain owns k.
ReadsThrough(p, s, m, d, k) ==
  \E i \in 1..Len(ChainOf(p, m)) :
    /\ ChainOf(p, m)[i] = d
    /\ \A j \in 1..(i - 1) : ~HasOwn(s, ChainOf(p, m)[j], k)

\* C19: when an assignment adds or changes slot k of an object d, the read
\* of k that follows it, from d and from every object that was already
\* linked to d with no own k before d on its chain, finds the new value
\* with d as owner; when an object o is given a new delegate, the read that
\* follows it from every object that reached o without finding k resolves
\* k along the new delegate's chain.
C19_MutationVisible ==
  [][/\ (last'.op = "set" /\ last'.res = "ok") =>
          \A m \in alive :
            ReadsThrough(proto, slots, m, last'.node, last'.key) =>
              Get(proto', slots', m, last'.key) = Found(last'.val, last'.node)
     /\ (last'.op = "link" /\ last'.res = "ok") =>
          \A m \in alive, k \in DescKeys :
            (/\ ReadsThrough(proto, slots, m, last'.node, k)
             /\ ~HasOwn(slots, last'.node, k)) =>
              Get(proto', slots', m, k) =
                IF last'.target = Null THEN NotFound
                ELSE Get(proto, slots, last'.target, k)]_vars

\* A slot was just assigned on an object that two other objects, neither
\* with a slot of its own, already delegated to; both resolve the key to it.
C19_Witness ==
  /\ last.op = "set"
  /\ last.res = "ok"
  /\ \E m1, m2 \in alive :
       /\ m1 # m2
       /\ proto[m1] = last.node
       /\ proto[m2] = last.node
       /\ slots[m1] = <<>>
       /\ slots[m2] = <<>>
       /\ Get(proto, slots, m1, last.key) = Found(last.val, last.node)
       /\ Get(proto, slots, m2, last.key) = Get(proto, slots, m1, last.key)

\* ---- C20 ----

\* C20: every object the constructor builds delegates to the one prototype
\* object and gets own sender, recipient and calculateHash slots while no
\* other object changes; the calculateHash of two instances are different
\* function objects, each owned by its instance; a method on the prototype
\* resolves from every instance to the same function object, owned by the
\* prototype.
C20_Constructor ==
  /\ [](/\ \A n \in Instances :
             /\ proto[n] = PrototypeNode
             /\ Get(proto, slots, n, "calculateHash") =
                  Found(OwnSlot(slots, n, "calculateHash").value, n)
             /\ HasOwn(slots, PrototypeNode, "calculateHash2") =>
                  Get(proto, slots, n, "calculateHash2") =
                    Found(OwnSlot(slots, PrototypeNode, "calculateHash2").value,
                          PrototypeNode)
        /\ \A n1, n2 \in Instances :
             /\ n1 # n2 =>
                  Get(proto, slots, n1, "calculateHash").value #
                    Get(proto, slots, n2, "calculateHash").value
             /\ Get(proto, slots, n1, "calculateHash2") =
                  Get(proto, slots, n2, "calculateHash2"))
  /\ [][last'.op = "new" =>
          /\ last'.node \notin alive
          /\ proto'[last'.node] = PrototypeNode
          /\ {slots'[last'.node][i].key : i \in 1..Len(slots'[last'.node])} =
               {"sender", "recipient", "calculateHash"}
          /\ \A m \in Nodes \ {last'.node} :
               slots'[m] = slots[m] /\ proto'[m] = proto[m]]_vars

\* Two instances exist and the prototype method was just added: each owns
\* its calculateHash, the two differ, and calculateHash2 resolves from both
\* to the prototype's function.
C20_Witness ==
  /\ last.op = "set"
  /\ last.node = PrototypeNode
  /\ \E n1, n2 \in Instances :
       /\ n1 # n2
       /\ Get(proto, slots, n1, "calculateHash").owner = n1
       /\ Get(proto, slots, n2, "calculateHash").owner = n2
       /\ Get(proto, slots, n1, "calculateHash").value #
            Get(proto, slots, n2, "calculateHash").value
       /\ Get(proto, slots, n1, "calculateHash2") =
            Found(PrototypeMethodFn, PrototypeNode)
       /\ Get(proto, slots, n2, "calculateHash2") =
            Found(PrototypeMethodFn, PrototypeNode)

\* ---- C21 ----
\* The own keys of n, as a set.
OwnKeys(s, n) == {s[n][i].key : i \in 1..Len(s[n])}

\* C21: merging a = {a: 'a'} and an object b whose only slot was defined with
\* {value: 'b', enumerable: true} into a fresh empty target leaves the target
\* with own keys exactly {a}.  Objects 1, 2, 3 are a, b and the target.
C21_Original ==
  (/\ alive = {1, 2, 3}
   /\ slots[1] = <<AssignedSlot("a", 1)>>
   /\ last.op = "define"
   /\ last.node = 2
   /\ slots[2] = <<[key |-> "b", value |-> 1, writable |-> FALSE,
                    enumerable |-> TRUE, configurable |-> FALSE]>>
   /\ slots[3] = <<>>)
  => OwnKeys(mergeInto(proto, slots, 3, <<1, 2>>).s, 3) = {"a"}

\* ---- C22 ----
\* The pushes of bs in order, with what each returned.
RECURSIVE PushAll(_, _, _, _)
PushAll(p, st, r, bs) ==
  IF bs = <<>> THEN st
  ELSE LET out == storePush(p, st.s, r, Head(bs))
       IN PushAll(p, [s |-> out.s, rets |-> Append(st.rets, out.ret)], r, Tail(bs))

PushSeqs == UNION {[1..k -> Values] : k \in 0..(StoreLen - 1)}

\* C22: from any state the stores can be in, init(e) on a store that
\* delegates to MyStore followed by the pushes bs on it leaves it with own
\* length Len(bs) + 1, own slot 0 holding e and own slots 1..Len(bs) holding
\* bs in order; the pushes returned 2, 3, ... and no other object changed.
\* A push that an action performed returned the store's own length.
C22_StoreSequence ==
  /\ \A r \in Stores, e \in Values, bs \in PushSeqs :
       LET i0  == storeInit(proto, slots, r, e)
           run == PushAll(proto, [s |-> i0.s, rets |-> <<>>], r, bs)
       IN /\ i0.res = "ok"
          /\ HasOwn(run.s, r, "length")
          /\ OwnSlot(run.s, r, "length").value = Len(bs) + 1
          /\ HasOwn(run.s, r, "0")
          /\ OwnSlot(run.s, r, "0").value = e
          /\ \A i \in 1..Len(bs) :
               /\ HasOwn(run.s, r, Digits[i + 1])
               /\ OwnSlot(run.s, r, Digits[i + 1]).value = bs[i]
          /\ run.rets = [i \in 1..Len(bs) |-> i + 1]
          /\ \A m \in Nodes \ {r} : run.s[m] = slots[m]
  /\ last.op = "push" =>
       /\ HasOwn(slots, last.node, "length")
       /\ OwnSlot(slots, last.node, "length").value = last.val

\* chain was initialised and pushed to once, the push returned 2, and
\* Blockchain, between chain and MyStore, holds a store of its own.
C22_Witness ==
  /\ last.op = "push"
  /\ last.node = ChainNode
  /\ last.val = 2
  /\ OwnSlot(slots, ChainNode, "length").value = 2
  /\ HasOwn(slots, ChainNode, "0")
  /\ HasOwn(slots, ChainNode, "1")
  /\ OwnSlot(slots, ChainNode, "0").value # OwnSlot(slots, ChainNode, "1").value
  /\ HasOwn(slots, BlockchainNode, "length")
  /\ OwnSlot(slots, BlockchainNode, "length").value = 1

\* ---- C23 ----
\* C23: right after chain.init(element), with no push since, chain.length
\* reads 2.
C23_Original ==
  (last.op = "init" /\ last.node = ChainNode /\ last.res = "ok")
  => Get(proto, slots, ChainNode, "length").value = 2

\* ---- C24 ----
\* C24: HashTransaction(sender, recipient) called without new, on any this,
\* gives what new HashTransaction(sender, recipient) gives: a new object
\* linked to HashTransaction.prototype whose own sender and recipient are
\* the arguments, every object that existed before keeping its slots and
\* its delegate.
C24_CallWithoutNew ==
  /\ Cardinality(alive) < NumNodes =>
       \A this \in alive, sender \in Values, recipient \in Values :
         LET c == construct(alive, proto, slots, sender, recipient)
             f == hashTransaction(alive, proto, slots, this, FALSE, sender, recipient)
         IN /\ f = c
            /\ f.ret \notin alive
            /\ f.alive = alive \cup {f.ret}
            /\ f.proto[f.ret] = PrototypeNode
            /\ HasOwn(f.slots, f.ret, "sender")
            /\ OwnSlot(f.slots, f.ret, "sender").value = sender
            /\ HasOwn(f.slots, f.ret, "recipient")
            /\ OwnSlot(f.slots, f.ret, "recipient").value = recipient
            /\ \A m \in alive : f.slots[m] = slots[m] /\ f.proto[m] = proto[m]
  /\ (last.op = "new" /\ last.val = 0) =>
       /\ last.node \in Instances
       /\ proto[last.node] = PrototypeNode
       /\ HasOwn(slots, last.node, "sender")
       /\ HasOwn(slots, last.node, "recipient")

\* A second instance was just made by a call without new while the first
\* instance, a possible this of that call, keeps its own sender.
C24_Witness ==
  /\ last.op = "new"
  /\ last.val = 0
  /\ Cardinality(Instances) = 2
  /\ \A n \in Instances :
       /\ proto[n] = PrototypeNode
       /\ HasOwn(slots, n, "sender")
       /\ HasOwn(slots, n, "recipient")
  /\ \E n \in Instances \ {last.node} :
       OwnSlot(slots, n, "sender").value # OwnSlot(slots, last.node, "sender").value

\* C25: an object made by flying(o) answers isFlying() with false right after
\* the call; after r.fly() it answers true and after r.land() false, each of
\* the two returning its receiver; no other step changes any answer.
C25_FlyingTracksLastCall ==
  [][/\ last'.op = "flying" => ~IsFlyingOf(proto', slots', isFlying', last'.node)
     /\ last'.op = "fly" =>
          /\ IsFlyingOf(proto', slots', isFlying', last'.node)
          /\ last'.target = last'.node
     /\ last'.op = "land" =>
          /\ ~IsFlyingOf(proto', slots', isFlying', last'.node)
          /\ last'.target = last'.node
     /\ last'.op \notin {"fly", "land"} =>
          \A b \in Birds : IsFlyingOf(proto', slots', isFlying', b)
                           = IsFlyingOf(proto, slots, isFlying, b)]_vars

\* A flying object that was in the air has just landed and returned itself
\* while another one is still in the air.
C25_Witness ==
  /\ last.op = "land"
  /\ last.was = 1
  /\ last.node \in Birds
  /\ last.target = last.node
  /\ \E b \in Birds : IsFlyingOf(proto, slots, isFlying, b)

\* C29: for two objects made by separate calls of flying, fly() or land() on
\* one leaves the answer of isFlying() on the other as it was, and neither
\* flying(o) nor a later fly() or land() changes a slot, the delegate link or
\* the binding of o.
C29_FlyingStateIsPrivate ==
  [][/\ last'.op \in {"fly", "land"} =>
          /\ \A b \in Birds \ {last'.node} :
               last'.node \in Birds =>
                 IsFlyingOf(proto', slots', isFlying', b)
                 = IsFlyingOf(proto, slots, isFlying, b)
          /\ slots' = slots
          /\ proto' = proto
     /\ last'.op = "flying" =>
          /\ slots'[last'.target] = slots[last'.target]
          /\ proto'[last'.target] = proto[last'.target]
          /\ isFlying'[last'.target] = isFlying[last'.target]]_vars

\* One flying object has just taken off while another, made by a different
\* call from an object holding a slot, is still on the ground.
C29_Witness ==
  /\ last.op = "fly"
  /\ last.was = 0
  /\ last.node \in Birds
  /\ \E b \in Birds \ {last.node} :
       /\ ~IsFlyingOf(proto, slots, isFlying, b)
       /\ HasOwn(slots, b, "a")

\* C26: Object.create(Dog).init(name, breed) evaluates to the new object,
\* whose own slots are then exactly name and breed with the values passed;
\* the slots of Dog and of Animal are what they were; from the new object
\* init resolves to Dog's function on Dog, bark to Dog's, eat to Animal's.
C26_InitWritesOnNewObject ==
  [][(last'.op = "createInit" /\ last'.target = DogNode) =>
       LET n == last'.node IN
       /\ n \notin alive
       /\ last'.ret = n
       /\ slots'[n] = <<AssignedSlot("name", last'.name),
                        AssignedSlot("breed", last'.breed)>>
       /\ slots'[DogNode] = slots[DogNode]
       /\ slots'[AnimalNode] = slots[AnimalNode]
       /\ Get(proto', slots', n, "init") = Found(DogInitFn, DogNode)
       /\ Get(proto', slots', n, "bark") = Found(BarkFn, DogNode)
       /\ Get(proto', slots', n, "eat") = Found(EatFn, AnimalNode)]_vars

\* A dog has just been created and initialised although Dog itself had been
\* initialised before with another name, and Dog still holds that name.
C26_Witness ==
  /\ last.op = "createInit"
  /\ last.target = DogNode
  /\ HasOwn(slots, DogNode, "name")
  /\ HasOwn(slots, DogNode, "breed")
  /\ OwnSlot(slots, DogNode, "name").value # last.name
  /\ OwnSlot(slots, last.node, "name").value = last.name

\* C30: when the first object along n's chain that holds key k holds it as a
\* non-enumerable slot, enumerateOwnAndInherited(n) does not yield k, whatever
\* the objects further up the chain hold.
C30_NonEnumerableHides ==
  \A n \in alive : \A k \in Keys :
    (/\ Holders(proto, slots, n, k) # {}
     /\ ~OwnSlot(slots, FirstHolder(proto, slots, n, k), k).enumerable)
    => k \notin Range(enumerateOwnAndInherited(proto, slots, n))

\* An object holds a key as a non-enumerable slot, its delegate holds the same
\* key as an enumerable one, and for-in from the object yields only the other
\* key, which it inherits.
C30_Witness ==
  \E n \in alive : \E k \in Keys :
    /\ proto[n] # Null
    /\ HasOwn(slots, n, k)
    /\ ~OwnSlot(slots, n, k).enumerable
    /\ HasOwn(slots, proto[n], k)
    /\ OwnSlot(slots, proto[n], k).enumerable
    /\ Len(enumerateOwnAndInherited(proto, slots, n)) = 1
    /\ k \notin Range(enumerateOwnAndInherited(proto, slots, n))

\* C27: once Cat.prototype is the object made by new Animal(), holds meow and
\* a non-enumerable constructor, and Animal.prototype holds walk, a for-in over
\* Cat.prototype yields exactly meow and walk, and constructor read from any
\* instance of Cat is found on Cat.prototype with value Cat.
C27_Original ==
  (/\ CatPrototypeNode \in alive
   /\ HasOwn(slots, CatPrototypeNode, "meow")
   /\ HasOwn(slots, CatPrototypeNode, "constructor")
   /\ ~OwnSlot(slots, CatPrototypeNode, "constructor").enumerable
   /\ HasOwn(slots, AnimalPrototypeNode, "walk"))
  => /\ Range(enumerateOwnAndInherited(proto, slots, CatPrototypeNode))
          = {"meow", "walk"}
     /\ \A b \in Cats :
          Get(proto, slots, b, "constructor") = Found(CatFn, CatPrototypeNode)

\* What every read from t returns, key by key.
Reads(p, s, t) == [k \in Keys |-> Get(p, s, t, k)]

\* The heaps a set or a defineOwn on src can lead to from s.
AfterWrite(p, s, src) ==
  {SetApply(p, s, src, k, v) : k \in Keys, v \in Values} \cup
  {DefineApply(s, src, k, d) : k \in Keys, d \in Descriptors}

\* C28 as stated: right after mergeInto(target, source), whatever set or
\* defineOwn is then applied to source, every get(target, key) returns what it
\* returned before that write.
C28_Original ==
  last.op = "mixin" =>
    \A s2 \in AfterWrite(proto, slots, last.target) :
      Reads(proto, s2, last.node) = Reads(proto, slots, last.node)

\* C28 amended: mergeInto(target, source) changes no delegate link and no
\* answer of isPrototypeOf; a set or defineOwn on an object changes what get
\* returns only from that object and from the objects that delegate to it, so
\* after a merge a write on source leaves every get(target, key) as it was
\* unless source is on target's delegate chain.
C28_MixinCopies ==
  /\ [](last.op = "mixin" =>
          (IsPrototypeOf(proto, last.target, last.node) \/
           \A s2 \in AfterWrite(proto, slots, last.target) :
             Reads(proto, s2, last.node) = Reads(proto, slots, last.node)))
  /\ [][/\ last'.op = "mixin" =>
             /\ proto' = proto
             /\ \A a, b \in alive :
                  IsPrototypeOf(proto', a, b) = IsPrototypeOf(proto, a, b)
        /\ last'.op \in {"set", "define"} =>
             \A t \in alive :
               (t # last'.node /\ ~IsPrototypeOf(proto, last'.node, t))
               => Reads(proto', slots', t) = Reads(proto, slots, t)]_vars

\* An empty target has just received a copy of a slot of a source it does
\* not delegate to, and there is a write on the source that changes what the
\* source reads for that key while every read from the target stays.
C28_Witness ==
  /\ last.op = "mixin"
  /\ last.res = "ok"
  /\ last.was = 0
  /\ ~IsPrototypeOf(proto, last.target, last.node)
  /\ \E k \in Keys :
       /\ HasOwn(slots, last.node, k)
       /\ Get(proto, slots, last.node, k).value = Get(proto, slots, last.target, k).value
       /\ \E s2 \in AfterWrite(proto, slots, last.target) :
            /\ Get(proto, s2, last.target, k) # Get(proto, slots, last.target, k)
            /\ Reads(proto, s2, last.node) = Reads(proto, slots, last.node)

====
